---- MODULE Spec2Model ----
(***************************************************************************)
(* A model of the NYT best-sellers ingestion module (src/get_data.py): the *)
(* remote snapshot fetcher, the flattening of a snapshot, and the two      *)
(* deduplicating writers with their bulk clears.                           *)
(*                                                                         *)
(* Python values.  A dict is a function whose DOMAIN is the set of keys    *)
(* the dict has; d.get(k) is Get(d, k).  Scalar values (names, dates,      *)
(* ISBNs, ranks) are strings; None is the scalar null and NoneObj the null *)
(* where an object (a dict, a snapshot) is expected.  A collection is the  *)
(* sequence of its documents in insertion order; the store-assigned _id of *)
(* a document is its place in that sequence.                               *)
(***************************************************************************)
EXTENDS Integers, Sequences, FiniteSets, TLC

VARIABLES
    books_collection,       \* db['books']: sequence of documents
    historical_collection,  \* db['books_historical']: sequence of documents
    now,                    \* the clock datetime.now() reads
    op,                     \* name of the last operation that returned
    ret,                    \* its return value
    call,                   \* repeated-call scenario: the arguments [results, list_name]
    before,                 \* repeated-call scenario: both collections before the last call
    calls,                  \* repeated-call scenario: calls made so far
    writers,                \* concurrent invocations of a writer: their local state
    fpc,                    \* fetch_historical_data: position ("idle", "loop", "done", "raised")
    fargs,                  \* its arguments [list_name, start_date, end_date]
    fend,                   \* its local "end" (a day number)
    current_date,           \* its local "current_date" (a day number)
    all_data,               \* its local "all_data"
    attempts,               \* the requests sent so far, each with the answer it got
    flat_in,                \* arguments of the last results_to_dataframe call
    flat_out,               \* the records it returned
    read,                   \* the last read accessor call: [op, arg, raised, value]
    overview,               \* the last overview call: [fn, response, got]
    pair,                   \* side-by-side run of the two writers: what the last step returned
    config,                 \* config.py: "absent", "no_key" (no API_KEY in it), "ok"
    json_file,              \* whether 'books_historical (1).json' exists
    store_up,               \* whether the MongoDB server answers
    cache,                  \* st.cache_data: loader name -> memoized return value
    page,                   \* the last script run: [name, outcome, ...]
    json_rows,              \* the records in 'books_historical (1).json'
    competition,            \* the last analyze_competition_dynamics call: [threshold, df]
    graph,                  \* the last fetch_graph call: [records, nodes, edges]
    calendar                \* the last date labelled: [date, season, period]

storeVars == <<books_collection, historical_collection, now, op, ret>>
callVars  == <<call, before, calls>>
fetchVars == <<fpc, fargs, fend, current_date, all_data, attempts>>
flatVars  == <<flat_in, flat_out>>
queryVars == <<read, overview, pair>>
pageVars  == <<config, json_file, store_up, cache, page>>
analysisVars == <<json_rows, competition, graph, calendar>>
vars == <<books_collection, historical_collection, now, op, ret, call, before, calls, writers,
          fpc, fargs, fend, current_date, all_data, attempts, flat_in, flat_out,
          read, overview, pair, config, json_file, store_up, cache, page,
          json_rows, competition, graph, calendar>>

-----------------------------------------------------------------------------
(* Bounds of the model *)

\* the clock stops the model after this many datetime.now() reads
MaxClock == 2
\* longest 'books' array of a snapshot
MaxBooks == 2
\* the clock stops a side-by-side run of the two writers after this many reads
MaxPairClock == 4
\* the end date of a fetched range is at most this many days after its start
MaxSpanDays == 15
\* and at most this many days before it
MaxBackDays == 8

-----------------------------------------------------------------------------
(* Python values *)

None == "None"
NoneObj == [py_none |-> TRUE]

\* d.get(k, default)
GetOr(d, k, default) == IF k \in DOMAIN d THEN d[k] ELSE default
\* d.get(k)
Get(d, k) == GetOr(d, k, None)
\* bool(v) of a scalar: None and '' are false
Truthy(v) == v # None /\ v # ""
\* a or b
Or(a, b) == IF Truthy(a) THEN a ELSE b
\* bool(o) of an object: None, {} and [] are false
TruthyObj(o) == o # NoneObj /\ DOMAIN o # {}

\* nothing read, no overview requested, no side-by-side step made
InitQuery ==
    /\ read = << >>
    /\ overview = << >>
    /\ pair = << >>

\* the deployment the ingestion module was imported in: config.py with an
\* API_KEY, the local data file in place, the store answering, nothing
\* memoized, no page run
InitAnalysis ==
    /\ json_rows = << >>
    /\ competition = << >>
    /\ graph = << >>
    /\ calendar = << >>

InitPage ==
    /\ config = "ok"
    /\ json_file = TRUE
    /\ store_up = TRUE
    /\ cache = << >>
    /\ page = << >>

-----------------------------------------------------------------------------
(* Inputs: item entries, snapshots, list_name arguments *)

BookA  == [primary_isbn13 |-> "111", rank |-> "1", title |-> "Book A"]
\* the same catalog code a week later: other rank, other fields present
BookA2 == [primary_isbn13 |-> "111", rank |-> "2", rank_last_week |-> "1",
           weeks_on_list |-> "2", title |-> "Book A", author |-> "Ann"]
\* an item without primary_isbn13
BookNoIsbn == [rank |-> "3", title |-> "Book C", publisher |-> "Pub"]
\* the items the store operations are called with
Books == {BookA, BookNoIsbn}

RECURSIVE SeqsUpTo(_, _)
SeqsUpTo(S, n) ==
    IF n = 0 THEN {<< >>}
    ELSE LET shorter == SeqsUpTo(S, n - 1)
         IN  shorter \cup {Append(s, x) : s \in {t \in shorter : Len(t) = n - 1}, x \in S}

BookLists == SeqsUpTo(Books, MaxBooks)

\* the metadata a snapshot carries: all of it, part of it, none of it
MetaFull == [list_name |-> "hardcover-fiction", bestsellers_date |-> "2024-01-07",
             published_date |-> "2024-01-21"]
MetaDateOnly == [bestsellers_date |-> "2024-01-07"]
MetaNone == << >>
\* the metadata the store operations are called with
Metas == {MetaFull, MetaDateOnly}

Snapshots == {("books" :> bl) @@ m : bl \in BookLists, m \in Metas}

\* the list_name argument: absent, empty, given
ListNameArgs == {None, "", "paperback"}

\* the snapshots results_to_dataframe is called with
AllBooks == {BookA, BookA2, BookNoIsbn}
AllMetas == {MetaFull, MetaDateOnly, MetaNone}
AllSnapshots == {("books" :> bl) @@ m : bl \in SeqsUpTo(AllBooks, MaxBooks), m \in AllMetas}

-----------------------------------------------------------------------------
(* results_to_dataframe *)

\* a record that carries the snapshot's own list name, whatever the argument
flat_book_snapshot_name(results, list_name, book) ==
    [list_name          |-> GetOr(results, "list_name", ""),
     bestsellers_date   |-> GetOr(results, "bestsellers_date", ""),
     published_date     |-> GetOr(results, "published_date", ""),
     rank               |-> Get(book, "rank"),
     rank_last_week     |-> Get(book, "rank_last_week"),
     weeks_on_list      |-> Get(book, "weeks_on_list"),
     title              |-> Get(book, "title"),
     author             |-> Get(book, "author"),
     publisher          |-> Get(book, "publisher"),
     description        |-> Get(book, "description"),
     price              |-> Get(book, "price"),
     primary_isbn10     |-> Get(book, "primary_isbn10"),
     primary_isbn13     |-> Get(book, "primary_isbn13"),
     amazon_product_url |-> Get(book, "amazon_product_url")]

flat_book(results, list_name, book) ==
    [list_name          |-> Or(list_name, GetOr(results, "list_name", "")),
     bestsellers_date   |-> GetOr(results, "bestsellers_date", ""),
     published_date     |-> GetOr(results, "published_date", ""),
     rank               |-> Get(book, "rank"),
     rank_last_week     |-> Get(book, "rank_last_week"),
     weeks_on_list      |-> Get(book, "weeks_on_list"),
     title              |-> Get(book, "title"),
     author             |-> Get(book, "author"),
     publisher          |-> Get(book, "publisher"),
     description        |-> Get(book, "description"),
     price              |-> Get(book, "price"),
     primary_isbn10     |-> Get(book, "primary_isbn10"),
     primary_isbn13     |-> Get(book, "primary_isbn13"),
     amazon_product_url |-> Get(book, "amazon_product_url")]

\* the loop over results['books'] appending to flattened_data
RECURSIVE flattened_data(_, _, _, _)
flattened_data(results, list_name, i, acc) ==
    IF i > Len(results["books"]) THEN acc
    ELSE flattened_data(results, list_name, i + 1,
                        Append(acc, flat_book(results, list_name, results["books"][i])))

\* a frame whose rows are stamped with the time of the call, as the writers'
\* documents are
results_to_dataframe_stamped(results, list_name) ==
    LET rows == flattened_data(results, list_name, 1, << >>)
    IN  [i \in 1..Len(rows) |-> ("fetched_at" :> now) @@ rows[i]]

\* pd.DataFrame(flattened_data): the rows of the frame, in order
results_to_dataframe(results, list_name) == flattened_data(results, list_name, 1, << >>)

-----------------------------------------------------------------------------
(* The store: find_one, insert_many, delete_many, count_documents *)

\* a document matches a filter when it has every value the filter names
Matches(d, filter) == \A k \in DOMAIN filter : Get(d, k) = filter[k]

\* collection.find_one(filter): the first match, or None
find_one(coll, filter) ==
    LET hits == SelectSeq(coll, LAMBDA d : Matches(d, filter))
    IN  IF hits = << >> THEN NoneObj ELSE Head(hits)

\* an insert that applies the dedup key atomically: a document whose
\* (list_name, bestsellers_date, primary_isbn13) is stored is not inserted
insert_many_unique(coll, documents) ==
    coll \o SelectSeq(documents,
                      LAMBDA d : \A i \in 1..Len(coll) :
                          <<coll[i].list_name, coll[i].bestsellers_date, coll[i].primary_isbn13>>
                              # <<d.list_name, d.bestsellers_date, d.primary_isbn13>>)

\* collection.insert_many(documents): the collection afterwards
insert_many(coll, documents) == coll \o documents

\* collection.count_documents({})
count_documents(coll) == Len(coll)

\* collection.find(filter): the matching documents, in insertion order
find(coll, filter) == SelectSeq(coll, LAMBDA d : Matches(d, filter))

\* the order the store compares field values in: null, then numbers, then
\* strings by their bytes (ranks are numbers, dates are strings)
BsonOrder == <<None, "1", "2", "3", "", "2024-01-07", "2024-01-14">>

bson_index(v) == CHOOSE i \in 1..Len(BsonOrder) : BsonOrder[i] = v

\* a cursor that returns the documents in the order they were found
sort_natural(docs, field, direction) == {docs}

\* cursor.sort(field, direction): the orders the cursor may return the
\* documents in; the order among documents with equal values is not fixed
sort(docs, field, direction) ==
    {s \in {[i \in 1..Len(docs) |-> docs[p[i]]] : p \in Permutations(1..Len(docs))} :
        \A i \in 1..(Len(s) - 1) :
            IF direction = 1
            THEN bson_index(Get(s[i], field)) <= bson_index(Get(s[i + 1], field))
            ELSE bson_index(Get(s[i + 1], field)) <= bson_index(Get(s[i], field))}

\* collection.distinct(field): every value of the field once, in any order
distinct(coll, field) ==
    LET values == {Get(coll[i], field) : i \in 1..Len(coll)}
    IN  {s \in [1..Cardinality(values) -> values] : \A v \in values : \E i \in DOMAIN s : s[i] = v}

\* a read that answers with the documents although the server is not answering
store_read_answers(values) == {[raised |-> FALSE, value |-> v] : v \in values}

\* what a read of the store gives its caller: one of the possible values, or
\* the driver's exception when the server does not answer
store_read(values) ==
    IF store_up
    THEN {[raised |-> FALSE, value |-> v] : v \in values}
    ELSE {[raised |-> TRUE, value |-> "ServerSelectionTimeoutError"]}

-----------------------------------------------------------------------------
(* The read accessors: pd.DataFrame(list(cursor)) is the sequence of rows   *)

get_books_by_list(list_name) ==
    store_read(sort(find(books_collection, [list_name |-> list_name]), "rank", 1))

get_books_by_date(date) ==
    store_read({find(books_collection, [bestsellers_date |-> date])})

get_all_books ==
    store_read(sort(find(books_collection, << >>), "bestsellers_date", -1))

get_book_history(isbn13) ==
    store_read(sort(find(books_collection, [primary_isbn13 |-> isbn13]), "bestsellers_date", 1))

count_books == store_read({count_documents(books_collection)})

get_unique_lists == store_read(distinct(books_collection, "list_name"))

get_all_historical_books ==
    store_read(sort(find(historical_collection, << >>), "bestsellers_date", -1))

count_historical_books == store_read({count_documents(historical_collection)})

-----------------------------------------------------------------------------
(* store_books_in_mongo *)

\* a key that takes '' for a missing primary_isbn13
mongo_unique_key_isbn_default(results, list_name, book) ==
    [list_name        |-> Or(list_name, GetOr(results, "list_name", "")),
     bestsellers_date |-> GetOr(results, "bestsellers_date", ""),
     primary_isbn13   |-> GetOr(book, "primary_isbn13", "")]

\* a key built from the snapshot's own list name, whatever the argument
mongo_unique_key_snapshot_name(results, list_name, book) ==
    [list_name        |-> GetOr(results, "list_name", ""),
     bestsellers_date |-> GetOr(results, "bestsellers_date", ""),
     primary_isbn13   |-> Get(book, "primary_isbn13")]

mongo_unique_key(results, list_name, book) ==
    [list_name        |-> Or(list_name, GetOr(results, "list_name", "")),
     bestsellers_date |-> GetOr(results, "bestsellers_date", ""),
     primary_isbn13   |-> Get(book, "primary_isbn13")]

\* a document that leaves out primary_isbn10
mongo_doc_without_isbn10(results, list_name, book, t) ==
    LET flat == flat_book(results, list_name, book)
    IN  ("fetched_at" :> t) @@ [k \in DOMAIN flat \ {"primary_isbn10"} |-> flat[k]]

mongo_doc(results, list_name, book, t) ==
    [list_name          |-> Or(list_name, GetOr(results, "list_name", "")),
     bestsellers_date   |-> GetOr(results, "bestsellers_date", ""),
     published_date     |-> GetOr(results, "published_date", ""),
     rank               |-> Get(book, "rank"),
     rank_last_week     |-> Get(book, "rank_last_week"),
     weeks_on_list      |-> Get(book, "weeks_on_list"),
     title              |-> Get(book, "title"),
     author             |-> Get(book, "author"),
     publisher          |-> Get(book, "publisher"),
     description        |-> Get(book, "description"),
     price              |-> Get(book, "price"),
     primary_isbn10     |-> Get(book, "primary_isbn10"),
     primary_isbn13     |-> Get(book, "primary_isbn13"),
     amazon_product_url |-> Get(book, "amazon_product_url"),
     fetched_at         |-> t]

\* the loop over results['books']: the documents staged from item i on, the
\* collection being read by every existence check and written by none
RECURSIVE mongo_documents(_, _, _, _, _, _)
mongo_documents(coll, results, list_name, i, documents, t) ==
    IF i > Len(results["books"]) THEN documents
    ELSE LET book == results["books"][i]
         IN  IF TruthyObj(find_one(coll, mongo_unique_key(results, list_name, book)))
             THEN mongo_documents(coll, results, list_name, i + 1, documents, t)
             ELSE mongo_documents(coll, results, list_name, i + 1,
                                  Append(documents, mongo_doc(results, list_name, book, t)),
                                  t + 1)

\* a call that returns the size of the batch, not the number inserted
mongo_call_batch_size(coll, results, list_name, t) ==
    LET documents == mongo_documents(coll, results, list_name, 1, << >>, t)
    IN  [coll |-> IF documents # << >> THEN insert_many(coll, documents) ELSE coll,
         ret  |-> Len(results["books"]),
         now  |-> t + Len(documents)]

\* a call that refreshes: stored documents with a key of the batch are removed
\* and every item of the batch is written anew
mongo_call_refresh(coll, results, list_name, t) ==
    LET books     == results["books"]
        documents == [i \in 1..Len(books) |-> mongo_doc(results, list_name, books[i], t + i - 1)]
        kept      == SelectSeq(coll, LAMBDA d :
                         \A i \in 1..Len(books) :
                             ~Matches(d, mongo_unique_key(results, list_name, books[i])))
    IN  [coll |-> kept \o documents, ret |-> Len(documents), now |-> t + Len(documents)]

\* one call on collection coll at clock t: the collection and clock afterwards,
\* the value returned
mongo_call(coll, results, list_name, t) ==
    LET documents == mongo_documents(coll, results, list_name, 1, << >>, t)
    IN  IF documents # << >>
        THEN [coll |-> insert_many(coll, documents), ret |-> Len(documents),
              now |-> t + Len(documents)]
        ELSE [coll |-> coll, ret |-> 0, now |-> t]

\* a writer whose existence check also looks into books_historical
store_books_in_mongo_checks_both(results, list_name) ==
    \E both \in {books_collection \o historical_collection} :
    \E r \in {mongo_call(both, results, list_name, now)} :
        /\ r.now <= MaxClock
        /\ books_collection' = books_collection \o SubSeq(r.coll, Len(both) + 1, Len(r.coll))
        /\ now' = r.now
        /\ op' = "store_books_in_mongo"
        /\ ret' = r.ret
        /\ UNCHANGED historical_collection

store_books_in_mongo(results, list_name) ==
    \E r \in {mongo_call(books_collection, results, list_name, now)} :
        /\ r.now <= MaxClock
        /\ books_collection' = r.coll
        /\ now' = r.now
        /\ op' = "store_books_in_mongo"
        /\ ret' = r.ret
        /\ UNCHANGED historical_collection

\* a clear that reports the number of documents left
clear_all_books_count_left ==
    /\ books_collection' = << >>
    /\ op' = "clear_all_books"
    /\ ret' = Len(books_collection')
    /\ UNCHANGED <<historical_collection, now>>

\* clear_all_books: delete_many({}) and its deleted_count
clear_all_books ==
    /\ books_collection' = << >>
    /\ op' = "clear_all_books"
    /\ ret' = Len(books_collection)
    /\ UNCHANGED <<historical_collection, now>>

-----------------------------------------------------------------------------
(* store_books_historical *)

\* a key that leaves the list name out
historical_unique_key_no_list(results, list_name, book) ==
    [bestsellers_date |-> GetOr(results, "bestsellers_date", ""),
     primary_isbn13   |-> Get(book, "primary_isbn13")]

historical_unique_key(results, list_name, book) ==
    [list_name        |-> Or(list_name, GetOr(results, "list_name", "")),
     bestsellers_date |-> GetOr(results, "bestsellers_date", ""),
     primary_isbn13   |-> Get(book, "primary_isbn13")]

historical_doc(results, list_name, book, t) ==
    [list_name          |-> Or(list_name, GetOr(results, "list_name", "")),
     bestsellers_date   |-> GetOr(results, "bestsellers_date", ""),
     published_date     |-> GetOr(results, "published_date", ""),
     rank               |-> Get(book, "rank"),
     rank_last_week     |-> Get(book, "rank_last_week"),
     weeks_on_list      |-> Get(book, "weeks_on_list"),
     title              |-> Get(book, "title"),
     author             |-> Get(book, "author"),
     publisher          |-> Get(book, "publisher"),
     description        |-> Get(book, "description"),
     price              |-> Get(book, "price"),
     primary_isbn10     |-> Get(book, "primary_isbn10"),
     primary_isbn13     |-> Get(book, "primary_isbn13"),
     amazon_product_url |-> Get(book, "amazon_product_url"),
     fetched_at         |-> t]

RECURSIVE historical_documents(_, _, _, _, _, _)
historical_documents(coll, results, list_name, i, documents, t) ==
    IF i > Len(results["books"]) THEN documents
    ELSE LET book == results["books"][i]
         IN  IF TruthyObj(find_one(coll, historical_unique_key(results, list_name, book)))
             THEN historical_documents(coll, results, list_name, i + 1, documents, t)
             ELSE historical_documents(coll, results, list_name, i + 1,
                                       Append(documents,
                                              historical_doc(results, list_name, book, t)),
                                       t + 1)

\* time.sleep(0.5), in tenths of a second
SleepTenths == 5

\* the sleep after the bulk insert changes no state of the store; "slept" is
\* the time the call spent in time.sleep
historical_call(coll, results, list_name, t) ==
    LET documents == historical_documents(coll, results, list_name, 1, << >>, t)
    IN  IF documents # << >>
        THEN [coll |-> insert_many(coll, documents), ret |-> Len(documents),
              now |-> t + Len(documents), slept |-> SleepTenths]
        ELSE [coll |-> coll, ret |-> 0, now |-> t, slept |-> 0]

store_books_historical(results, list_name) ==
    \E r \in {historical_call(historical_collection, results, list_name, now)} :
        /\ r.now <= MaxClock
        /\ historical_collection' = r.coll
        /\ now' = r.now
        /\ op' = "store_books_historical"
        /\ ret' = r.ret
        /\ UNCHANGED books_collection

clear_historical_books ==
    /\ historical_collection' = << >>
    /\ op' = "clear_historical_books"
    /\ ret' = Len(historical_collection)
    /\ UNCHANGED <<books_collection, now>>

-----------------------------------------------------------------------------
(* The single-writer system: the store operations called one at a time *)

Init ==
    /\ books_collection = << >>
    /\ historical_collection = << >>
    /\ now = 0
    /\ op = "import"
    /\ ret = 0
    /\ call = << >>
    /\ before = << >>
    /\ calls = 0
    /\ writers = << >>
    /\ fpc = "idle"
    /\ fargs = << >>
    /\ fend = 0
    /\ current_date = 0
    /\ all_data = << >>
    /\ attempts = << >>
    /\ flat_in = [given |-> << >>, after |-> << >>]
    /\ flat_out = << >>
    /\ InitQuery
    /\ InitAnalysis
    /\ InitPage

otherVars == <<callVars, writers, fetchVars, flatVars, analysisVars, queryVars, pageVars>>

StoreMongo ==
    /\ \E results \in Snapshots, list_name \in ListNameArgs :
           store_books_in_mongo(results, list_name)
    /\ UNCHANGED otherVars

StoreHistorical ==
    /\ \E results \in Snapshots, list_name \in ListNameArgs :
           store_books_historical(results, list_name)
    /\ UNCHANGED otherVars

ClearAllBooks == clear_all_books /\ UNCHANGED otherVars

ClearHistoricalBooks == clear_historical_books /\ UNCHANGED otherVars

Next ==
    \/ StoreMongo
    \/ StoreHistorical
    \/ ClearAllBooks
    \/ ClearHistoricalBooks

Spec == Init /\ [][Next]_vars

-----------------------------------------------------------------------------
(* The repeated-call scenario: on a store prepared by one earlier writer    *)
(* call, one writer is called with arguments fixed at the start, and then   *)
(* called again with the same arguments.                                    *)

Snapshot == [books |-> books_collection, historical |-> historical_collection, now |-> now]

InitCalls ==
    /\ books_collection = << >>
    /\ historical_collection = << >>
    /\ now = 0
    /\ op = "import"
    /\ ret = 0
    /\ call \in [results : Snapshots, list_name : ListNameArgs]
    /\ before = << >>
    /\ calls = 0
    /\ writers = << >>
    /\ fpc = "idle"
    /\ fargs = << >>
    /\ fend = 0
    /\ current_date = 0
    /\ all_data = << >>
    /\ attempts = << >>
    /\ flat_in = [given |-> << >>, after |-> << >>]
    /\ flat_out = << >>
    /\ InitQuery
    /\ InitAnalysis
    /\ InitPage

\* the earlier call that prepares the store
PrepareMongo ==
    /\ calls = 0
    /\ op = "import"
    /\ \E results \in Snapshots, list_name \in ListNameArgs :
           store_books_in_mongo(results, list_name)
    /\ UNCHANGED <<callVars, writers, fetchVars, flatVars, analysisVars, queryVars, pageVars>>

PrepareHistorical ==
    /\ calls = 0
    /\ op = "import"
    /\ \E results \in Snapshots, list_name \in ListNameArgs :
           store_books_historical(results, list_name)
    /\ UNCHANGED <<callVars, writers, fetchVars, flatVars, analysisVars, queryVars, pageVars>>

CallMongo ==
    /\ calls = 0 \/ (calls = 1 /\ op = "store_books_in_mongo")
    /\ store_books_in_mongo(call.results, call.list_name)
    /\ before' = Append(before, Snapshot)
    /\ calls' = calls + 1
    /\ UNCHANGED <<call, writers, fetchVars, flatVars, analysisVars, queryVars, pageVars>>

CallHistorical ==
    /\ calls = 0 \/ (calls = 1 /\ op = "store_books_historical")
    /\ store_books_historical(call.results, call.list_name)
    /\ before' = Append(before, Snapshot)
    /\ calls' = calls + 1
    /\ UNCHANGED <<call, writers, fetchVars, flatVars, analysisVars, queryVars, pageVars>>

\* the caller looks up the history of an item of the batch it has written
ReadBack ==
    /\ calls >= 1
    /\ \E i \in 1..Len(call.results["books"]) :
           \E isbn13 \in {Get(call.results["books"][i], "primary_isbn13")} :
               read' \in {[op |-> "get_book_history", arg |-> isbn13, raised |-> got.raised,
                           value |-> got.value] : got \in get_book_history(isbn13)}
    /\ UNCHANGED <<storeVars, callVars, writers, fetchVars, flatVars, analysisVars, overview, pair, pageVars>>

NextCalls ==
    \/ PrepareMongo
    \/ PrepareHistorical
    \/ CallMongo
    \/ CallHistorical
    \/ ReadBack

SpecCalls == InitCalls /\ [][NextCalls]_vars

-----------------------------------------------------------------------------
(* Concurrent invocations: two calls of one writer with the same arguments, *)
(* each existence check (find_one) and each bulk insert (insert_many) being *)
(* one step on the shared store.                                            *)

Invocations == {1, 2}

Collection(target) ==
    IF target = "books" THEN books_collection ELSE historical_collection

InitConc ==
    /\ books_collection = << >>
    /\ historical_collection = << >>
    /\ now = 0
    /\ op = "import"
    /\ ret = 0
    /\ call = << >>
    /\ before = << >>
    /\ calls = 0
    /\ \E target \in {"books", "historical"}, results \in Snapshots,
          list_name \in ListNameArgs :
           writers = [w \in Invocations |->
                         [pc |-> "loop", target |-> target, results |-> results,
                          list_name |-> list_name, i |-> 1, documents |-> << >>,
                          ret |-> 0]]
    /\ fpc = "idle"
    /\ fargs = << >>
    /\ fend = 0
    /\ current_date = 0
    /\ all_data = << >>
    /\ attempts = << >>
    /\ flat_in = [given |-> << >>, after |-> << >>]
    /\ flat_out = << >>
    /\ InitQuery
    /\ InitAnalysis
    /\ InitPage

\* an iteration that writes the document it stages at once, before the later
\* items of the batch are checked
WriterCheckInsertEach(w) ==
    LET me   == writers[w]
        book == me.results["books"][me.i]
        key  == IF me.target = "books"
                THEN mongo_unique_key(me.results, me.list_name, book)
                ELSE historical_unique_key(me.results, me.list_name, book)
        doc  == IF me.target = "books"
                THEN mongo_doc(me.results, me.list_name, book, now)
                ELSE historical_doc(me.results, me.list_name, book, now)
    IN  /\ me.pc = "loop"
        /\ me.i <= Len(me.results["books"])
        /\ IF TruthyObj(find_one(Collection(me.target), key))
           THEN /\ writers' = [writers EXCEPT ![w].i = me.i + 1]
                /\ UNCHANGED <<now, books_collection, historical_collection>>
           ELSE /\ now < MaxClock
                /\ writers' = [writers EXCEPT ![w].i = me.i + 1,
                                              ![w].documents = Append(me.documents, doc)]
                /\ now' = now + 1
                /\ IF me.target = "books"
                   THEN /\ books_collection' = Append(books_collection, doc)
                        /\ UNCHANGED historical_collection
                   ELSE /\ historical_collection' = Append(historical_collection, doc)
                        /\ UNCHANGED books_collection
        /\ UNCHANGED <<op, ret, callVars, fetchVars, flatVars, analysisVars, queryVars, pageVars>>

\* one iteration of "for book in books": the existence check, then either
\* "continue" or the staging of the document
WriterCheck(w) ==
    LET me   == writers[w]
        book == me.results["books"][me.i]
        key  == IF me.target = "books"
                THEN mongo_unique_key(me.results, me.list_name, book)
                ELSE historical_unique_key(me.results, me.list_name, book)
        doc  == IF me.target = "books"
                THEN mongo_doc(me.results, me.list_name, book, now)
                ELSE historical_doc(me.results, me.list_name, book, now)
    IN  /\ me.pc = "loop"
        /\ me.i <= Len(me.results["books"])
        /\ IF TruthyObj(find_one(Collection(me.target), key))
           THEN /\ writers' = [writers EXCEPT ![w].i = me.i + 1]
                /\ UNCHANGED now
           ELSE /\ now < MaxClock
                /\ writers' = [writers EXCEPT ![w].i = me.i + 1,
                                              ![w].documents = Append(me.documents, doc)]
                /\ now' = now + 1
        /\ UNCHANGED <<books_collection, historical_collection, op, ret, callVars,
                       fetchVars, flatVars, analysisVars, queryVars, pageVars>>

\* "if documents:" with documents staged: the bulk insert; the historical
\* writer sleeps before it returns
WriterInsert(w) ==
    LET me == writers[w]
    IN  /\ me.pc = "loop"
        /\ me.i > Len(me.results["books"])
        /\ me.documents # << >>
        /\ IF me.target = "books"
           THEN /\ books_collection' = insert_many(books_collection, me.documents)
                /\ writers' = [writers EXCEPT ![w].pc = "done",
                                              ![w].ret = Len(me.documents)]
                /\ UNCHANGED historical_collection
           ELSE /\ historical_collection' = insert_many(historical_collection, me.documents)
                /\ writers' = [writers EXCEPT ![w].pc = "sleep",
                                              ![w].ret = Len(me.documents)]
                /\ UNCHANGED books_collection
        /\ UNCHANGED <<now, op, ret, callVars, fetchVars, flatVars, analysisVars, queryVars, pageVars>>

\* time.sleep(0.5), then the return
WriterSleep(w) ==
    /\ writers[w].pc = "sleep"
    /\ writers' = [writers EXCEPT ![w].pc = "done"]
    /\ UNCHANGED <<storeVars, callVars, fetchVars, flatVars, analysisVars, queryVars, pageVars>>

\* "return 0": nothing was staged
WriterReturnZero(w) ==
    LET me == writers[w]
    IN  /\ me.pc = "loop"
        /\ me.i > Len(me.results["books"])
        /\ me.documents = << >>
        /\ writers' = [writers EXCEPT ![w].pc = "done", ![w].ret = 0]
        /\ UNCHANGED <<storeVars, callVars, fetchVars, flatVars, analysisVars, queryVars, pageVars>>

NextConc ==
    \E w \in Invocations :
        \/ WriterCheck(w)
        \/ WriterInsert(w)
        \/ WriterSleep(w)
        \/ WriterReturnZero(w)

SpecConc == InitConc /\ [][NextConc]_vars

-----------------------------------------------------------------------------
(* Dates.  A date string 'YYYY-MM-DD' is the tuple <<YYYY, MM, DD>>; an     *)
(* absent date (None, '') is the empty tuple.  A datetime at midnight is    *)
(* its proleptic Gregorian day number, as datetime computes it; adding      *)
(* timedelta(days=7) adds 7.                                                *)

is_leap(year) == year % 4 = 0 /\ (year % 100 # 0 \/ year % 400 = 0)

days_before_year(year) ==
    LET y == year - 1 IN y * 365 + y \div 4 - y \div 100 + y \div 400

days_in_month(year, month) ==
    IF month = 2 THEN (IF is_leap(year) THEN 29 ELSE 28)
    ELSE IF month \in {4, 6, 9, 11} THEN 30 ELSE 31

RECURSIVE days_before_month(_, _)
days_before_month(year, month) ==
    IF month = 1 THEN 0
    ELSE days_before_month(year, month - 1) + days_in_month(year, month - 1)

\* datetime.strptime(date, '%Y-%m-%d'): the day number of a date string
strptime(date) ==
    days_before_year(date[1]) + days_before_month(date[1], date[2]) + date[3]

\* the year a day number falls in, by 400-, 100-, 4- and 1-year cycles
year_of(ordinal) ==
    LET n0   == ordinal - 1
        n400 == n0 \div days_before_year(401)
        n1r  == n0 % days_before_year(401)
        n100 == n1r \div days_before_year(101)
        n2r  == n1r % days_before_year(101)
        n4   == n2r \div days_before_year(5)
        n3r  == n2r % days_before_year(5)
        n1   == n3r \div 365
    IN  IF n1 = 4 \/ n100 = 4
        THEN n400 * 400 + n100 * 100 + n4 * 4 + n1
        ELSE n400 * 400 + n100 * 100 + n4 * 4 + n1 + 1

RECURSIVE month_of(_, _, _)
month_of(year, day_of_year, month) ==
    IF day_of_year <= days_before_month(year, month) + days_in_month(year, month)
    THEN month
    ELSE month_of(year, day_of_year, month + 1)

\* current_date.strftime('%Y-%m-%d'): the date string of a day number
strftime(ordinal) ==
    LET year  == year_of(ordinal)
        doy   == ordinal - days_before_year(year)
        month == month_of(year, doy, 1)
    IN  <<year, month, doy - days_before_month(year, month)>>

-----------------------------------------------------------------------------
(* The remote API: what one GET request can be answered with *)

\* the results object of a successful answer
RemoteResults == [list_name |-> "hardcover-fiction", bestsellers_date |-> "2024-01-07",
                  published_date |-> "2024-01-21", books |-> <<BookA>>]

\* parsed JSON bodies: status OK with results, OK with an empty results
\* (the API's answer for a week it has no list for), OK without results, a
\* non-success status, no status at all (a fault message), a non-success
\* status that still carries results
JsonBodies ==
    { [status |-> "OK", results |-> RemoteResults],
      [status |-> "OK", results |-> << >>],
      [status |-> "OK"],
      [status |-> "ERROR"],
      [fault |-> "limit"],
      [status |-> "ERROR", results |-> RemoteResults] }

\* requests.get raises (network error); response.json() raises (the body is
\* not JSON); the body parses to a JSON value that is not an object; the body
\* parses to an object
Responses ==
    { [kind |-> "network_error"], [kind |-> "not_json"], [kind |-> "json_not_object"] }
        \cup {[kind |-> "json", data |-> d] : d \in JsonBodies}

\* the URL requested
request_url(list_name, date) ==
    IF date # << >>
    THEN <<"lists", date, list_name>>
    ELSE <<"lists", "current", list_name>>

\* get_best_sellers_by_list for the answer its request gets: the value
\* returned, or the exception that leaves the function
get_best_sellers_by_list(response) ==
    IF response.kind = "network_error"
    THEN [raised |-> TRUE, exception |-> "ConnectionError"]
    ELSE IF response.kind = "not_json"
    THEN [raised |-> TRUE, exception |-> "JSONDecodeError"]
    ELSE IF response.kind = "json_not_object"
    THEN [raised |-> TRUE, exception |-> "AttributeError"]
    ELSE LET data == response.data
         IN  IF Get(data, "status") = "OK" /\ "results" \in DOMAIN data
             THEN [raised |-> FALSE, value |-> data["results"]]
             ELSE [raised |-> FALSE, value |-> NoneObj]

-----------------------------------------------------------------------------
(* fetch_historical_data *)

StartDates == {<<2024, 2, 20>>, <<2023, 12, 22>>}

\* the call: both dates parsed, all_data = [], current_date = start
fetch_historical_data(list_name, start_date, end_date) ==
    /\ fpc = "idle"
    /\ fargs' = [list_name |-> list_name, start_date |-> start_date, end_date |-> end_date]
    /\ fend' = strptime(end_date)
    /\ current_date' = strptime(start_date)
    /\ all_data' = << >>
    /\ attempts' = << >>
    /\ fpc' = "loop"

\* an iteration that leaves current_date where it is
fetch_week_no_advance(response) ==
    /\ fpc = "loop"
    /\ current_date <= fend
    /\ UNCHANGED <<fpc, fargs, fend, current_date, all_data, attempts>>

\* one iteration of "while current_date <= end": the request for that week
\* and what the loop does with the answer
fetch_week(response) ==
    /\ fpc = "loop"
    /\ current_date <= fend
    /\ \E date_str \in {strftime(current_date)}, got \in {get_best_sellers_by_list(response)} :
           /\ attempts' = Append(attempts,
                                 [url |-> request_url(fargs.list_name, date_str),
                                  date |-> date_str, response |-> response, got |-> got])
           /\ IF got.raised
              THEN /\ fpc' = "raised"
                   /\ UNCHANGED <<all_data, current_date>>
              ELSE /\ all_data' = IF TruthyObj(got.value)
                                  THEN Append(all_data, [date |-> date_str, data |-> got.value])
                                  ELSE all_data
                   /\ current_date' = current_date + 7
                   /\ UNCHANGED fpc
    /\ UNCHANGED <<fargs, fend>>

\* the loop ends: "return all_data"
fetch_return ==
    /\ fpc = "loop"
    /\ current_date > fend
    /\ fpc' = "done"
    /\ UNCHANGED <<fargs, fend, current_date, all_data, attempts>>

\* a call of get_best_sellers_by_list on its own, with or without a date
GetBestSellersByList ==
    /\ fpc = "idle"
    /\ attempts = << >>
    /\ \E date \in {<< >>} \cup StartDates, response \in Responses :
           attempts' = <<[url |-> request_url("hardcover-fiction", date), date |-> date,
                          response |-> response,
                          got |-> get_best_sellers_by_list(response)]>>
    /\ UNCHANGED <<fpc, fargs, fend, current_date, all_data>>
    /\ UNCHANGED <<storeVars, callVars, writers, flatVars, analysisVars, queryVars, pageVars>>

FetchCall ==
    /\ \E start_date \in StartDates, k \in (0 - MaxBackDays)..MaxSpanDays :
           fetch_historical_data("hardcover-fiction", start_date,
                                 strftime(strptime(start_date) + k))
    /\ UNCHANGED <<storeVars, callVars, writers, flatVars, analysisVars, queryVars, pageVars>>

FetchWeek ==
    /\ \E response \in Responses : fetch_week(response)
    /\ UNCHANGED <<storeVars, callVars, writers, flatVars, analysisVars, queryVars, pageVars>>

FetchReturn == fetch_return /\ UNCHANGED <<storeVars, callVars, writers, flatVars, analysisVars, queryVars, pageVars>>

NextFetch ==
    \/ GetBestSellersByList
    \/ FetchCall
    \/ FetchWeek
    \/ FetchReturn

SpecFetch == Init /\ [][NextFetch]_vars

\* The call followed to its end.  Each request is answered in one of three
\* ways: the list of the week, a non-success status, a network error.
LiveResponses ==
    { [kind |-> "json", data |-> [status |-> "OK", results |-> RemoteResults]],
      [kind |-> "json", data |-> [status |-> "ERROR"]],
      [kind |-> "network_error"] }

FetchWeekAnswered ==
    /\ \E response \in LiveResponses : fetch_week(response)
    /\ UNCHANGED <<storeVars, callVars, writers, flatVars, analysisVars, queryVars, pageVars>>

NextFetchLive ==
    \/ FetchCall
    \/ FetchWeekAnswered
    \/ FetchReturn

\* the call runs on: while the loop can take a step it takes one (a request
\* that was sent is answered), and the function returns when the loop is over
SpecFetchLive ==
    /\ Init
    /\ [][NextFetchLive]_vars
    /\ WF_vars(FetchWeekAnswered)
    /\ WF_vars(FetchReturn)

-----------------------------------------------------------------------------
(* The overview calls: get_full_overview and get_lists_names, each called   *)
(* on its own with the answer its request gets.                             *)

ListEntry == [list_name |-> "Hardcover Fiction", list_name_encoded |-> "hardcover-fiction"]

\* the "results" member of an overview body: JSON null, an empty object, an
\* object without "lists", with an empty "lists", with one list
OverviewResults ==
    { NoneObj,
      << >>,
      [bestsellers_date |-> "2024-01-07"],
      [bestsellers_date |-> "2024-01-07", lists |-> << >>],
      [bestsellers_date |-> "2024-01-07", lists |-> <<ListEntry>>] }

\* parsed bodies: any of the three status forms, with or without "results"
OverviewBodies ==
    LET statuses == {[status |-> "OK"], [status |-> "ERROR"], [fault |-> "invalid key"]}
    IN  statuses \cup {("results" :> r) @@ st : r \in OverviewResults, st \in statuses}

OverviewResponses ==
    { [kind |-> "network_error"], [kind |-> "not_json"], [kind |-> "json_not_object"] }
        \cup {[kind |-> "json", data |-> d] : d \in OverviewBodies}

\* the date argument: absent, or a published date
OverviewDates == {<< >>, <<2024, 2, 20>>, <<2023, 12, 22>>, <<2024, 1, 21>>}

\* the request get_full_overview sends
overview_request(date) ==
    [url |-> "lists/full-overview",
     params |-> IF date # << >> THEN [published_date |-> date] ELSE << >>]

\* get_full_overview for the answer its request gets
get_full_overview(response) ==
    IF response.kind = "network_error"
    THEN [raised |-> TRUE, exception |-> "ConnectionError"]
    ELSE IF response.kind = "not_json"
    THEN [raised |-> TRUE, exception |-> "JSONDecodeError"]
    ELSE IF response.kind = "json_not_object"
    THEN [raised |-> TRUE, exception |-> "TypeError"]
    ELSE IF "results" \in DOMAIN response.data
         THEN [raised |-> FALSE, value |-> response.data["results"]]
         ELSE [raised |-> TRUE, exception |-> "KeyError"]

\* get_lists_names for the answer the overview request gets
get_lists_names(response) ==
    LET got == get_full_overview(response)
    IN  IF got.raised THEN got
        ELSE IF TruthyObj(got.value) /\ "lists" \in DOMAIN got.value
        THEN [raised |-> FALSE, value |-> got.value["lists"]]
        ELSE [raised |-> FALSE, value |-> NoneObj]

overviewFrame == <<storeVars, callVars, writers, fetchVars, flatVars, analysisVars, read, pair, pageVars>>

GetFullOverview ==
    /\ \E date \in OverviewDates, response \in OverviewResponses :
           overview' = [fn |-> "get_full_overview", request |-> overview_request(date),
                        response |-> response, got |-> get_full_overview(response)]
    /\ UNCHANGED overviewFrame

GetListsNames ==
    /\ \E response \in OverviewResponses :
           overview' = [fn |-> "get_lists_names", request |-> overview_request(<< >>),
                        response |-> response, got |-> get_lists_names(response)]
    /\ UNCHANGED overviewFrame

NextOverview ==
    \/ GetFullOverview
    \/ GetListsNames

SpecOverview == Init /\ [][NextOverview]_vars

-----------------------------------------------------------------------------
(* Flattening on its own: results_to_dataframe called on a store that holds *)
(* what one writer call left, while the clock runs.                         *)

InitFlat ==
    /\ \E results \in {("books" :> bl) @@ MetaFull : bl \in {<< >>, <<BookA>>}} :
           LET r == mongo_call(<< >>, results, None, 0)
           IN  books_collection = r.coll /\ now = r.now
    /\ historical_collection = << >>
    /\ op = "store_books_in_mongo"
    /\ ret = Len(books_collection)
    /\ call = << >>
    /\ before = << >>
    /\ calls = 0
    /\ writers = << >>
    /\ fpc = "idle"
    /\ fargs = << >>
    /\ fend = 0
    /\ current_date = 0
    /\ all_data = << >>
    /\ attempts = << >>
    /\ flat_in = [given |-> << >>, after |-> << >>]
    /\ flat_out = << >>
    /\ InitQuery
    /\ InitAnalysis
    /\ InitPage

\* one call: the frame returned, and the arguments as the caller holds them
\* afterwards (the function only reads them)
ResultsToDataframe ==
    /\ \E results \in AllSnapshots, list_name \in ListNameArgs :
           /\ flat_out' = results_to_dataframe(results, list_name)
           /\ flat_in' = [given |-> <<results, list_name>>, after |-> <<results, list_name>>]
    /\ UNCHANGED <<storeVars, callVars, writers, fetchVars, analysisVars, queryVars, pageVars>>

\* time passes
Tick ==
    /\ now < MaxClock
    /\ now' = now + 1
    /\ UNCHANGED <<books_collection, historical_collection, op, ret, callVars, writers,
                   fetchVars, flatVars, analysisVars, queryVars, pageVars>>

NextFlat ==
    \/ ResultsToDataframe
    \/ Tick

SpecFlat == InitFlat /\ [][NextFlat]_vars

-----------------------------------------------------------------------------
(* The store in use: the writers, the clears and the read accessors called  *)
(* in any order from empty collections.  "read" is the last accessor call   *)
(* made since the store last changed.                                       *)

MetaLater == [list_name |-> "paperback-nonfiction", bestsellers_date |-> "2024-01-14",
              published_date |-> "2024-01-28"]

ReadSnapshots ==
    {("books" :> bl) @@ m : bl \in SeqsUpTo({BookA, BookA2}, MaxBooks),
                           m \in {MetaFull, MetaLater}}

\* the arguments the accessors are called with
ReadListNames == {"hardcover-fiction", "paperback-nonfiction", "young-adult"}
ReadDates == {"2024-01-07", "2024-01-14", ""}
ReadIsbns == {"111", "999", None}

readFrame == <<callVars, writers, fetchVars, flatVars, analysisVars, overview, pair, pageVars>>

PopulateMongo ==
    /\ \E results \in ReadSnapshots : store_books_in_mongo(results, None)
    /\ read' = << >>
    /\ UNCHANGED readFrame

PopulateHistorical ==
    /\ \E results \in ReadSnapshots : store_books_historical(results, None)
    /\ read' = << >>
    /\ UNCHANGED readFrame

EmptyBooks == clear_all_books /\ read' = << >> /\ UNCHANGED readFrame

EmptyHistorical == clear_historical_books /\ read' = << >> /\ UNCHANGED readFrame

\* an accessor call as its caller sees it: what it was called with and what
\* came back
Accessed(name, arg, outcomes) ==
    {[op |-> name, arg |-> arg, raised |-> got.raised, value |-> got.value] : got \in outcomes}

GetBooksByList ==
    /\ \E list_name \in ReadListNames :
           read' \in Accessed("get_books_by_list", list_name, get_books_by_list(list_name))
    /\ UNCHANGED <<storeVars, readFrame>>

GetBooksByDate ==
    /\ \E date \in ReadDates :
           read' \in Accessed("get_books_by_date", date, get_books_by_date(date))
    /\ UNCHANGED <<storeVars, readFrame>>

GetAllBooks ==
    /\ read' \in Accessed("get_all_books", None, get_all_books)
    /\ UNCHANGED <<storeVars, readFrame>>

GetBookHistory ==
    /\ \E isbn13 \in ReadIsbns :
           read' \in Accessed("get_book_history", isbn13, get_book_history(isbn13))
    /\ UNCHANGED <<storeVars, readFrame>>

CountBooks ==
    /\ read' \in Accessed("count_books", None, count_books)
    /\ UNCHANGED <<storeVars, readFrame>>

GetUniqueLists ==
    /\ read' \in Accessed("get_unique_lists", None, get_unique_lists)
    /\ UNCHANGED <<storeVars, readFrame>>

GetAllHistoricalBooks ==
    /\ read' \in Accessed("get_all_historical_books", None, get_all_historical_books)
    /\ UNCHANGED <<storeVars, readFrame>>

CountHistoricalBooks ==
    /\ read' \in Accessed("count_historical_books", None, count_historical_books)
    /\ UNCHANGED <<storeVars, readFrame>>

NextReads ==
    \/ PopulateMongo
    \/ PopulateHistorical
    \/ EmptyBooks
    \/ EmptyHistorical
    \/ GetBooksByList
    \/ GetBooksByDate
    \/ GetAllBooks
    \/ GetBookHistory
    \/ CountBooks
    \/ GetUniqueLists
    \/ GetAllHistoricalBooks
    \/ CountHistoricalBooks

SpecReads == Init /\ [][NextReads]_vars

-----------------------------------------------------------------------------
(* The life of a record: writer and clear calls in any order, each with the *)
(* store as it was before it, on a store that starts empty or holds what    *)
(* one writer call with five distinct items left; the count accessors are   *)
(* called in between.                                                       *)

\* batches of one list and date whose items carry the same primary_isbn13
\* with different field values
LifeSnapshots == {("books" :> bl) @@ MetaFull : bl \in SeqsUpTo({BookA, BookA2}, MaxBooks)}

FiveIsbns == <<"201", "202", "203", "204", "205">>

FiveSnapshot ==
    ("books" :> [i \in DOMAIN FiveIsbns |->
                    [primary_isbn13 |-> FiveIsbns[i], rank |-> "1", title |-> "Book"]])
        @@ MetaFull

EmptyStore == [books |-> << >>, historical |-> << >>, now |-> 0]

InitLife ==
    /\ \/ /\ books_collection = << >>
          /\ historical_collection = << >>
          /\ now = 0
          /\ op = "import"
          /\ ret = 0
          /\ call = << >>
          /\ before = << >>
       \/ \E r \in {mongo_call(<< >>, FiveSnapshot, None, 0)} :
              /\ books_collection = r.coll
              /\ historical_collection = << >>
              /\ now = r.now
              /\ op = "store_books_in_mongo"
              /\ ret = r.ret
              /\ call = [results |-> FiveSnapshot, list_name |-> None]
              /\ before = <<EmptyStore>>
       \/ \E r \in {historical_call(<< >>, FiveSnapshot, None, 0)} :
              /\ books_collection = << >>
              /\ historical_collection = r.coll
              /\ now = r.now
              /\ op = "store_books_historical"
              /\ ret = r.ret
              /\ call = [results |-> FiveSnapshot, list_name |-> None]
              /\ before = <<EmptyStore>>
    /\ calls = 0
    /\ writers = << >>
    /\ fpc = "idle"
    /\ fargs = << >>
    /\ fend = 0
    /\ current_date = 0
    /\ all_data = << >>
    /\ attempts = << >>
    /\ flat_in = [given |-> << >>, after |-> << >>]
    /\ flat_out = << >>
    /\ InitQuery
    /\ InitAnalysis
    /\ InitPage

lifeFrame == <<calls, writers, fetchVars, flatVars, analysisVars, overview, pair, pageVars>>

LifeStoreMongo ==
    /\ \E results \in LifeSnapshots :
           /\ store_books_in_mongo(results, None)
           /\ call' = [results |-> results, list_name |-> None]
    /\ before' = <<Snapshot>>
    /\ read' = << >>
    /\ UNCHANGED lifeFrame

LifeStoreHistorical ==
    /\ \E results \in LifeSnapshots :
           /\ store_books_historical(results, None)
           /\ call' = [results |-> results, list_name |-> None]
    /\ before' = <<Snapshot>>
    /\ read' = << >>
    /\ UNCHANGED lifeFrame

LifeClearAllBooks ==
    /\ clear_all_books
    /\ call' = << >>
    /\ before' = <<Snapshot>>
    /\ read' = << >>
    /\ UNCHANGED lifeFrame

LifeClearHistoricalBooks ==
    /\ clear_historical_books
    /\ call' = << >>
    /\ before' = <<Snapshot>>
    /\ read' = << >>
    /\ UNCHANGED lifeFrame

LifeCountBooks ==
    /\ read' \in Accessed("count_books", None, count_books)
    /\ UNCHANGED <<storeVars, call, before, lifeFrame>>

LifeCountHistoricalBooks ==
    /\ read' \in Accessed("count_historical_books", None, count_historical_books)
    /\ UNCHANGED <<storeVars, call, before, lifeFrame>>

NextLife ==
    \/ LifeStoreMongo
    \/ LifeStoreHistorical
    \/ LifeClearAllBooks
    \/ LifeClearHistoricalBooks
    \/ LifeCountBooks
    \/ LifeCountHistoricalBooks

SpecLife == InitLife /\ [][NextLife]_vars

-----------------------------------------------------------------------------
(* The two writers side by side: from empty collections, each batch is      *)
(* given to store_books_in_mongo and then to store_books_historical.        *)

pairFrame == <<callVars, writers, fetchVars, flatVars, analysisVars, read, overview, pageVars>>

\* the next batch, given to store_books_in_mongo
PairMongo ==
    /\ IF pair = << >> THEN TRUE ELSE pair.turn = "mongo"
    /\ \E results \in Snapshots, list_name \in ListNameArgs :
           \E r \in {mongo_call(books_collection, results, list_name, now)} :
               /\ r.now <= MaxPairClock
               /\ books_collection' = r.coll
               /\ now' = r.now
               /\ op' = "store_books_in_mongo"
               /\ ret' = r.ret
               /\ pair' = [turn |-> "historical", results |-> results, list_name |-> list_name,
                           mongo |-> r.ret, historical |-> 0, slept |-> 0]
    /\ UNCHANGED <<historical_collection, pairFrame>>

\* the same batch, given to store_books_historical
PairHistorical ==
    /\ pair # << >>
    /\ pair.turn = "historical"
    /\ \E r \in {historical_call(historical_collection, pair.results, pair.list_name, now)} :
           /\ r.now <= MaxPairClock
           /\ historical_collection' = r.coll
           /\ now' = r.now
           /\ op' = "store_books_historical"
           /\ ret' = r.ret
           /\ pair' = [pair EXCEPT !.turn = "mongo", !.historical = r.ret, !.slept = r.slept]
    /\ UNCHANGED <<books_collection, pairFrame>>

NextPair ==
    \/ PairMongo
    \/ PairHistorical

SpecPair == Init /\ [][NextPair]_vars

-----------------------------------------------------------------------------
(* The dashboard pages.  A page load is one run of the page's script, top   *)
(* to bottom.  "page" records the run: what configuration it met, where its *)
(* data came from ("loaded": the store, a failed store read, the no-op that *)
(* stands in for a missing accessor, the local file, or nothing), what the  *)
(* viewer was shown, the rows the analysis was computed on, the API key the *)
(* script holds, and how the run ended: "rendered" (analysis shown),        *)
(* "empty" (ran to its end without an analysis), "stopped" (st.stop()),     *)
(* "raised" (an exception left the script).                                 *)
(* A loader under st.cache_data runs once; later runs get the value it      *)
(* returned, with the messages it showed.                                   *)

\* "from config import API_KEY" at the top of get_data, and with it any
\* import of get_data: ImportError unless config.py is there with an API_KEY
import_get_data ==
    IF config = "ok"
    THEN [raised |-> FALSE, value |-> "get_data"]
    ELSE [raised |-> TRUE, value |-> "ImportError"]

Memoized(name) == name \in DOMAIN cache

\* a loader that is run again although a value is memoized
CacheGet_recompute(name, computed) == computed

\* the value a memoized loader gives this run
CacheGet(name, computed) == IF Memoized(name) THEN {cache[name]} ELSE computed

CachePut(name, value) == (name :> value) @@ cache

\* load_and_analyze_data of the Seasonal and Publisher pages, called with
\* the accessor the page's import block left: the frame it returns and the
\* messages it shows
load_and_analyze_data(accessor) ==
    IF accessor = "noop"
    THEN {[rows |-> << >>, shown |-> {"warning"}, loaded |-> "noop"]}
    ELSE {IF got.raised
          THEN [rows |-> << >>, shown |-> {"error"}, loaded |-> "failed"]
          ELSE IF got.value = << >>
          THEN [rows |-> << >>, shown |-> {"warning"}, loaded |-> "store"]
          ELSE [rows |-> got.value, shown |-> {}, loaded |-> "store"]
          : got \in get_all_historical_books}

\* pages/4 Seasonal_Analysis.py
SeasonalPage ==
    /\ \E imported \in {import_get_data} :
       \E value \in CacheGet("seasonal",
                             load_and_analyze_data(IF imported.raised THEN "noop"
                                                   ELSE "get_data")) :
           /\ cache' = CachePut("seasonal", value)
           /\ page' = [name |-> "Seasonal", config |-> config, loaded |-> value.loaded,
                       shown |-> value.shown \cup (IF imported.raised THEN {"error"} ELSE {}),
                       rows |-> value.rows, key |-> "none",
                       outcome |-> IF value.rows = << >> THEN "empty" ELSE "rendered"]
    /\ UNCHANGED <<storeVars, callVars, writers, fetchVars, flatVars, analysisVars, queryVars,
                   config, json_file, store_up>>

\* the publishers with at least five appearances among the top five ranks
publisher_stats(rows) ==
    {p \in {Get(rows[i], "publisher") : i \in 1..Len(rows)} \ {None} :
        Cardinality({i \in 1..Len(rows) :
                        /\ Get(rows[i], "publisher") = p
                        /\ Get(rows[i], "rank") \in {"1", "2", "3"}}) >= 5}

\* pages/Publisher_Analysis-Research_Q2.py
PublisherPage ==
    /\ \E imported \in {import_get_data} :
       \E value \in CacheGet("publisher",
                             load_and_analyze_data(IF imported.raised THEN "noop"
                                                   ELSE "get_data")) :
           /\ cache' = CachePut("publisher", value)
           /\ page' = [name |-> "Publisher", config |-> config, loaded |-> value.loaded,
                       shown |-> value.shown \cup (IF imported.raised THEN {"error"} ELSE {}),
                       rows |-> value.rows, key |-> "none",
                       outcome |-> IF publisher_stats(value.rows) = {} THEN "empty"
                                   ELSE "rendered"]
    /\ UNCHANGED <<storeVars, callVars, writers, fetchVars, flatVars, analysisVars, queryVars,
                   config, json_file, store_up>>

pageFrame == <<storeVars, callVars, writers, fetchVars, flatVars, analysisVars, queryVars,
               config, json_file, store_up>>

\* the import block of the Co-Author page: LOAD_SUCCESS and what is shown
coauthor_import ==
    IF config = "ok"
    THEN [load_success |-> TRUE, shown |-> {}, key |-> "configured"]
    ELSE [load_success |-> FALSE, shown |-> {"error"}, key |-> "undefined"]

load_timeseries_data(load_success) ==
    IF ~load_success
    THEN {[rows |-> << >>, shown |-> {}, loaded |-> "none"]}
    ELSE {IF got.raised
          THEN [rows |-> << >>, shown |-> {"error"}, loaded |-> "failed"]
          ELSE [rows |-> got.value, shown |-> {}, loaded |-> "store"]
          : got \in get_all_historical_books}

\* pages/6 Co-Author_Analysis.py; the collection handle it opens is not used
CoAuthorPage ==
    /\ \E imported \in {coauthor_import} :
       \E value \in CacheGet("coauthor", load_timeseries_data(imported.load_success)) :
           /\ cache' = CachePut("coauthor", value)
           /\ page' = [name |-> "Co-Author", config |-> config, loaded |-> value.loaded,
                       shown |-> imported.shown \cup value.shown
                                    \cup (IF value.rows = << >> THEN {"warning"} ELSE {}),
                       rows |-> value.rows, key |-> imported.key,
                       outcome |-> IF value.rows = << >> THEN "empty" ELSE "rendered"]
    /\ UNCHANGED pageFrame

\* the Sentiment page's own get_all_historical_books: the store read through
\* the page's own handle, any exception answered with an empty frame
sentiment_get_all_historical_books ==
    {IF got.raised
     THEN [rows |-> << >>, shown |-> {}, loaded |-> "failed"]
     ELSE [rows |-> got.value, shown |-> {}, loaded |-> "store"]
     : got \in store_read(sort(find(historical_collection, << >>), "bestsellers_date", -1))}

\* pages/3 Sentiment_Analysis.py
SentimentPage ==
    /\ \E value \in CacheGet("sentiment", sentiment_get_all_historical_books) :
           /\ cache' = CachePut("sentiment", value)
           /\ page' = [name |-> "Sentiment", config |-> config, loaded |-> value.loaded,
                       shown |-> IF value.rows = << >> THEN {"warning"} ELSE {},
                       rows |-> value.rows, key |-> "none",
                       outcome |-> IF value.rows = << >> THEN "stopped" ELSE "rendered"]
    /\ UNCHANGED pageFrame

\* the configuration block of the Lifespan page: whether the script goes on,
\* what is shown, the API_KEY the script holds afterwards
lifespan_configuration ==
    IF ~json_file
    THEN [goes_on |-> FALSE, shown |-> {"error"}, key |-> "undefined"]
    ELSE IF config = "absent"
    THEN [goes_on |-> TRUE, shown |-> {"info"}, key |-> "undefined"]
    ELSE IF config = "no_key"
    THEN [goes_on |-> TRUE, shown |-> {}, key |-> "DUMMY_KEY"]
    ELSE [goes_on |-> TRUE, shown |-> {}, key |-> "configured"]

\* pages/5 Lifespan_Analysis.py: the configuration block, then main() on the
\* local data file
LifespanPage ==
    /\ \E configured \in {lifespan_configuration} :
           page' = [name |-> "Lifespan", config |-> config,
                    loaded |-> IF configured.goes_on THEN "file" ELSE "none",
                    shown |-> configured.shown, rows |-> << >>, key |-> configured.key,
                    outcome |-> IF configured.goes_on THEN "rendered" ELSE "stopped"]
    /\ UNCHANGED <<pageFrame, cache>>

\* a store_books_historical that is the ingestion module's writer
lifespan_store_books_historical_writes(coll, data, list_name) ==
    historical_call(coll, data, list_name, now).coll

\* the Lifespan page's own store_books_historical(data, list_name): pass
lifespan_store_books_historical(coll, data, list_name) == coll

\* the Lifespan page's placeholders called: fetch_historical_data (pass),
\* store_books_historical (pass), count_historical_books (0)
LifespanPlaceholders ==
    /\ page # << >>
    /\ page.name = "Lifespan"
    /\ page.outcome = "rendered"
    /\ \E data \in Snapshots, list_name \in ListNameArgs :
           historical_collection' =
               lifespan_store_books_historical(historical_collection, data, list_name)
    /\ page' = [page EXCEPT !.name = "Lifespan placeholders", !.loaded = "none",
                            !.shown = {}]
    /\ UNCHANGED <<books_collection, now, op, ret, callVars, writers, fetchVars, flatVars, analysisVars,
                   queryVars, config, json_file, store_up, cache>>

\* startup of the ingestion module on its own
ImportGetData ==
    /\ \E imported \in {import_get_data} :
           page' = [name |-> "get_data", config |-> config, loaded |-> "none", shown |-> {},
                    rows |-> << >>,
                    key |-> IF imported.raised THEN "undefined" ELSE "configured",
                    outcome |-> IF imported.raised THEN "raised" ELSE "imported"]
    /\ UNCHANGED <<pageFrame, cache>>

\* the MongoDB server stops answering, and answers again
StoreDown ==
    /\ store_up
    /\ store_up' = FALSE
    /\ UNCHANGED <<storeVars, callVars, writers, fetchVars, flatVars, analysisVars, queryVars,
                   config, json_file, cache, page>>

StoreUp ==
    /\ ~store_up
    /\ store_up' = TRUE
    /\ UNCHANGED <<storeVars, callVars, writers, fetchVars, flatVars, analysisVars, queryVars,
                   config, json_file, cache, page>>

\* the memoized values are dropped (the server restarts, the cache is
\* cleared, a ttl runs out)
CacheClear ==
    /\ cache # << >>
    /\ cache' = << >>
    /\ UNCHANGED <<pageFrame, page>>

\* the snapshots the store was filled from before the pages are opened
PageSnapshots ==
    {("books" :> bl) @@ MetaFull : bl \in {<< >>, <<BookA>>, <<BookA, BookNoIsbn>>}}

InitPages ==
    /\ \E results \in PageSnapshots :
       \E m \in {mongo_call(<< >>, results, None, 0)} :
       \E h \in {historical_call(<< >>, results, None, m.now)} :
           /\ books_collection = m.coll
           /\ historical_collection = h.coll
           /\ now = h.now
           /\ op = "store_books_historical"
           /\ ret = h.ret
    /\ call = << >>
    /\ before = << >>
    /\ calls = 0
    /\ writers = << >>
    /\ fpc = "idle"
    /\ fargs = << >>
    /\ fend = 0
    /\ current_date = 0
    /\ all_data = << >>
    /\ attempts = << >>
    /\ flat_in = [given |-> << >>, after |-> << >>]
    /\ flat_out = << >>
    /\ InitQuery
    /\ InitAnalysis
    /\ config \in {"absent", "no_key", "ok"}
    /\ json_file \in BOOLEAN
    /\ store_up = TRUE
    /\ cache = << >>
    /\ page = << >>

NextPages ==
    \/ ImportGetData
    \/ SeasonalPage
    \/ PublisherPage
    \/ CoAuthorPage
    \/ SentimentPage
    \/ LifespanPage
    \/ LifespanPlaceholders
    \/ StoreDown
    \/ StoreUp
    \/ CacheClear

SpecPages == InitPages /\ [][NextPages]_vars

-----------------------------------------------------------------------------
(* Memoized loading: the Seasonal and Publisher pages opened again and     *)
(* again within one Streamlit process while the ingestion side writes to   *)
(* and clears books_historical and the server goes down and comes back.    *)
(* A change of the store blanks "page", so a recorded page run is always   *)
(* later than the last change of the store.                                *)

MemoSnapshots ==
    {("books" :> bl) @@ MetaFull : bl \in {<<BookA>>, <<BookA2>>, <<BookA, BookA2>>}}

memoFrame == <<books_collection, call, before, calls, writers, fetchVars, flatVars, analysisVars,
               queryVars, config, json_file, store_up, cache>>

MemoStoreHistorical ==
    /\ store_up
    /\ \E results \in MemoSnapshots :
       \E r \in {historical_call(historical_collection, results, None, now)} :
           /\ r.ret > 0
           /\ r.now <= MaxPairClock
           /\ historical_collection' = r.coll
           /\ now' = r.now
           /\ op' = "store_books_historical"
           /\ ret' = r.ret
    /\ page' = << >>
    /\ UNCHANGED memoFrame

MemoClearHistorical ==
    /\ store_up
    /\ historical_collection # << >>
    /\ historical_collection' = << >>
    /\ op' = "clear_historical_books"
    /\ ret' = Len(historical_collection)
    /\ page' = << >>
    /\ UNCHANGED <<now, memoFrame>>

NextMemo ==
    \/ SeasonalPage
    \/ PublisherPage
    \/ MemoStoreHistorical
    \/ MemoClearHistorical
    \/ StoreDown
    \/ StoreUp

SpecMemo == Init /\ [][NextMemo]_vars

-----------------------------------------------------------------------------
(* analyze_competition_dynamics of the Lifespan page, on the records of the *)
(* local JSON file.  A cell of rank_last_week is a numeral ("0", "2"), a    *)
(* text that is no number ("n/a") or null (None); a date is a tuple as in   *)
(* the fetch, the empty tuple a text pd.to_datetime coerces to NaT.         *)

\* the longest JSON file
MaxRows == 3

\* the slider: min_value=1, max_value=10
MinThreshold == 1
MaxThreshold == 10
Thresholds == MinThreshold..MaxThreshold

JsonRow(list_name, date, rank_last_week) ==
    [list_name |-> list_name, bestsellers_date |-> date, rank_last_week |-> rank_last_week]

JsonRows ==
    {JsonRow("hardcover-fiction", <<2024, 1, 7>>, "0"),
     JsonRow("hardcover-fiction", <<2024, 1, 7>>, None),
     JsonRow("hardcover-fiction", <<2024, 1, 7>>, "n/a"),
     JsonRow("hardcover-fiction", <<2024, 1, 7>>, "2"),
     JsonRow("hardcover-fiction", <<2024, 12, 31>>, "0"),
     JsonRow("paperback-nonfiction", <<2024, 1, 7>>, "0"),
     JsonRow("hardcover-fiction", <<2023, 12, 31>>, "0"),
     JsonRow("hardcover-fiction", <<2025, 1, 1>>, "0"),
     JsonRow("hardcover-fiction", << >>, "0"),
     JsonRow(None, <<2024, 1, 7>>, "0")}

\* pd.to_datetime(..., errors='coerce'): a day number, or NaT
to_datetime(date) ==
    IF date = << >> THEN [NaT |-> TRUE, day |-> 0]
    ELSE [NaT |-> FALSE, day |-> strptime(date)]

\* the date filter: 2024-01-01 <= date <= 2024-12-31, false for NaT
in_2024(date) ==
    \E d \in {to_datetime(date)} :
        /\ ~d.NaT
        /\ d.day >= strptime(<<2024, 1, 1>>)
        /\ d.day <= strptime(<<2024, 12, 31>>)

RECURSIVE date_filter(_)
date_filter(rows) ==
    IF rows = << >> THEN << >>
    ELSE IF in_2024(Head(rows).bestsellers_date)
         THEN <<Head(rows)>> \o date_filter(Tail(rows))
         ELSE date_filter(Tail(rows))

\* pd.to_numeric(..., errors='coerce').fillna(0)
to_numeric_fillna(cell) == IF cell = "2" THEN 2 ELSE 0

\* a debut counted only when rank_last_week is the numeral 0
is_debut_zero_only(cell) == IF cell = "0" THEN 1 ELSE 0

is_debut(cell) == IF to_numeric_fillna(cell) = 0 THEN 1 ELSE 0

\* groupby(['list_name', 'bestsellers_date'])['is_debut'].sum(): the groups
\* (rows with a null key are left out), and the sum of one group
competition_groups(rows) ==
    {<<rows[i].list_name, rows[i].bestsellers_date>> :
        i \in {j \in 1..Len(rows) : rows[j].list_name # None}}

debut_count(rows, key) ==
    Cardinality({i \in 1..Len(rows) :
                    /\ <<rows[i].list_name, rows[i].bestsellers_date>> = key
                    /\ is_debut(rows[i].rank_last_week) = 1})

\* 'Crowded' above the threshold only
competition_level_above(count, debut_threshold) ==
    IF count > debut_threshold THEN "Crowded" ELSE "Quiet"

competition_level(count, debut_threshold) ==
    IF count >= debut_threshold THEN "Crowded" ELSE "Quiet"

\* the frame after step 4: the 2024 rows, each with is_debut and, merged in
\* on its week, debut_count and competition_level
analyze_competition_dynamics(rows, debut_threshold) ==
    LET df == date_filter(rows)
    IN  [i \in 1..Len(df) |->
            LET key == <<df[i].list_name, df[i].bestsellers_date>>
            IN  [list_name |-> df[i].list_name,
                 bestsellers_date |-> df[i].bestsellers_date,
                 rank_last_week |-> to_numeric_fillna(df[i].rank_last_week),
                 is_debut |-> is_debut(df[i].rank_last_week),
                 debut_count |-> IF key \in competition_groups(df)
                                 THEN debut_count(df, key) ELSE "NaN",
                 competition_level |->
                     IF key \in competition_groups(df)
                     THEN competition_level(debut_count(df, key), debut_threshold)
                     ELSE "NaN"]]

competitionFrame == <<storeVars, callVars, writers, fetchVars, flatVars, queryVars, pageVars,
                      graph, calendar>>

\* the file as it is when the page is opened
LoadJson ==
    /\ json_rows = << >>
    /\ competition = << >>
    /\ json_rows' \in SeqsUpTo(JsonRows, MaxRows) \ {<< >>}
    /\ UNCHANGED <<competition, competitionFrame>>

\* one run of the analysis on the file, with the slider at any position
AnalyzeCompetitionDynamics ==
    /\ json_rows # << >>
    /\ competition = << >>
    /\ \E debut_threshold \in Thresholds :
           competition' = [debut_threshold |-> debut_threshold,
                           df |-> analyze_competition_dynamics(json_rows, debut_threshold)]
    /\ UNCHANGED <<json_rows, competitionFrame>>

NextCompetition ==
    \/ LoadJson
    \/ AnalyzeCompetitionDynamics

SpecCompetition == Init /\ [][NextCompetition]_vars

-----------------------------------------------------------------------------
(* A writer call while the server can stop answering: one invocation, step  *)
(* by step as in the concurrent runs, on a store that is empty or holds an  *)
(* earlier batch.  With the server down the next store operation of the     *)
(* call (find_one, insert_many) raises and the call ends there; "before"    *)
(* holds the store as it was when the call started.                         *)

FailPrepared ==
    {<< >>, mongo_call(<< >>, ("books" :> <<BookA>>) @@ MetaFull, None, 0).coll}

InitFail ==
    /\ \E target \in {"books", "historical"}, prepared \in FailPrepared :
           /\ books_collection = IF target = "books" THEN prepared ELSE << >>
           /\ historical_collection = IF target = "books" THEN << >> ELSE prepared
           /\ now = Len(prepared)
           /\ before = <<[books |-> IF target = "books" THEN prepared ELSE << >>,
                          historical |-> IF target = "books" THEN << >> ELSE prepared,
                          now |-> Len(prepared)]>>
           /\ \E results \in Snapshots, list_name \in ListNameArgs :
                  writers = [w \in {1} |->
                                [pc |-> "loop", target |-> target, results |-> results,
                                 list_name |-> list_name, i |-> 1, documents |-> << >>,
                                 ret |-> 0]]
    /\ op = "import"
    /\ ret = 0
    /\ call = << >>
    /\ calls = 0
    /\ fpc = "idle"
    /\ fargs = << >>
    /\ fend = 0
    /\ current_date = 0
    /\ all_data = << >>
    /\ attempts = << >>
    /\ flat_in = [given |-> << >>, after |-> << >>]
    /\ flat_out = << >>
    /\ InitQuery
    /\ InitAnalysis
    /\ InitPage

\* the existence check answered
CheckAnswered ==
    /\ store_up
    /\ WriterCheck(1)

\* the existence check raises: the exception leaves the call
CheckRaises ==
    /\ ~store_up
    /\ writers[1].pc = "loop"
    /\ writers[1].i <= Len(writers[1].results["books"])
    /\ writers' = [writers EXCEPT ![1].pc = "raised"]
    /\ UNCHANGED <<storeVars, callVars, fetchVars, flatVars, analysisVars, queryVars, pageVars>>

InsertAnswered ==
    /\ store_up
    /\ WriterInsert(1)

\* insert_many raises before anything is sent
InsertRaises ==
    /\ ~store_up
    /\ writers[1].pc = "loop"
    /\ writers[1].i > Len(writers[1].results["books"])
    /\ writers[1].documents # << >>
    /\ writers' = [writers EXCEPT ![1].pc = "raised"]
    /\ UNCHANGED <<storeVars, callVars, fetchVars, flatVars, analysisVars, queryVars, pageVars>>

\* the historical writer's sleep, and the return without an insert
FailSleep ==
    /\ writers[1].target = "historical"
    /\ WriterSleep(1)

FailReturnZero ==
    /\ writers[1].documents = << >>
    /\ WriterReturnZero(1)

NextFail ==
    \/ CheckAnswered
    \/ CheckRaises
    \/ InsertAnswered
    \/ InsertRaises
    \/ FailSleep
    \/ FailReturnZero
    \/ StoreDown
    \/ StoreUp

SpecFail == InitFail /\ [][NextFail]_vars

-----------------------------------------------------------------------------
(* fetch_graph of the Neo4J page.  A node of the database is a record with  *)
(* its id, its labels and its properties; a record of the query result is   *)
(* [b, r, x] with r the type of the relationship.  The dict "nodes" is the  *)
(* sequence of its values in insertion order.                               *)

\* the most records the query returns (LIMIT $limit)
MaxRecords == 3

GraphBook1 == [id |-> 1, labels |-> <<"Book">>, title |-> "Book A",
               published_date |-> "2024-01-21", isbn13 |-> "111"]
\* a book without a title
GraphBook2 == [id |-> 2, labels |-> <<"Book">>, isbn13 |-> "222"]
GraphAuthor == [id |-> 3, labels |-> <<"Author">>, name |-> "Ann"]
GraphListWeek == [id |-> 4, labels |-> <<"ListWeek">>, list_name |-> "hardcover-fiction",
                  bestsellers_date |-> "2024-01-07"]
\* a node without labels
GraphBare == [id |-> 5, labels |-> << >>]

\* MATCH (b:Book)-[r]->(x): the records the query can return
GraphRecords ==
    {[b |-> b, r |-> "RELATED", x |-> x] :
        b \in {GraphBook1, GraphBook2},
        x \in {GraphBook1, GraphBook2, GraphAuthor, GraphListWeek, GraphBare}}

book_node(b) ==
    [id |-> b.id, label |-> GetOr(b, "title", "Book"), group |-> "Book",
     props |-> [Title |-> Get(b, "title"), Published_date |-> Get(b, "published_date"),
                ISBN13 |-> Get(b, "isbn13")]]

x_group(x) == IF x.labels # << >> THEN x.labels[1] ELSE "Node"

\* x.get("name") or x.get("title") or x.get("list_name") or x_group; for a
\* ListWeek the f-string "{list_name} ({week})", here the pair of its parts
display_label(x) ==
    IF x_group(x) = "ListWeek"
    THEN <<GetOr(x, "list_name", ""), GetOr(x, "bestsellers_date", "")>>
    ELSE Or(Get(x, "name"), Or(Get(x, "title"), Or(Get(x, "list_name"), x_group(x))))

neighbor_props(x) ==
    IF x_group(x) = "Author" THEN [Author |-> Get(x, "name")]
    ELSE IF x_group(x) = "Publisher" THEN [Publisher |-> Get(x, "name")]
    ELSE IF x_group(x) = "Season" THEN [Season |-> Get(x, "name")]
    ELSE IF x_group(x) = "ListWeek"
    THEN [List_name |-> Get(x, "list_name"), Bestsellers_date |-> Get(x, "bestsellers_date")]
    ELSE << >>

neighbor_node(x) ==
    [id |-> x.id, label |-> display_label(x), group |-> x_group(x), props |-> neighbor_props(x)]

\* an assignment nodes[id] = node made whether or not the id is there
add_node_overwrite(nodes, node) ==
    IF \E i \in 1..Len(nodes) : nodes[i].id = node.id
    THEN [i \in 1..Len(nodes) |-> IF nodes[i].id = node.id THEN node ELSE nodes[i]]
    ELSE Append(nodes, node)

\* "if id not in nodes: nodes[id] = node"
add_node(nodes, node) ==
    IF \E i \in 1..Len(nodes) : nodes[i].id = node.id THEN nodes ELSE Append(nodes, node)

\* the loop over the records: nodes and edges after the records from i on
RECURSIVE graph_loop(_, _, _, _)
graph_loop(records, i, nodes, edges) ==
    IF i > Len(records) THEN [nodes |-> nodes, edges |-> edges]
    ELSE LET record == records[i]
         IN  graph_loop(records, i + 1,
                        add_node(add_node(nodes, book_node(record.b)),
                                 neighbor_node(record.x)),
                        Append(edges, <<record.b.id, record.x.id, record.r>>))

\* list(nodes.values()), edges
fetch_graph(records) == graph_loop(records, 1, << >>, << >>)

graphFrame == <<storeVars, callVars, writers, fetchVars, flatVars, queryVars, pageVars,
                json_rows, competition, calendar>>

FetchGraph ==
    /\ graph = << >>
    /\ \E records \in SeqsUpTo(GraphRecords, MaxRecords) :
       \E got \in {fetch_graph(records)} :
           graph' = [records |-> records, nodes |-> got.nodes, edges |-> got.edges]
    /\ UNCHANGED graphFrame

\* the page is left
GraphLeave ==
    /\ graph # << >>
    /\ graph' = << >>
    /\ UNCHANGED graphFrame

NextGraph ==
    \/ FetchGraph
    \/ GraphLeave

SpecGraph == Init /\ [][NextGraph]_vars

-----------------------------------------------------------------------------
(* Season and period labels of the seasonal page.  A stored date is the     *)
(* string of year, month and day, << >> where the document has none.        *)

\* the dates of one year with a 29 February, and no date
CalendarDates ==
    {strftime(ordinal) : ordinal \in strptime(<<2024, 1, 1>>)..strptime(<<2024, 12, 31>>)}
        \cup {<< >>}

\* pd.to_datetime(df['bestsellers_date']): a Timestamp, NaT for a missing
\* value.  The month and day of NaT are NaN, which equals no number: 0 here,
\* which no test of get_season or get_period compares equal to a month.
seasonal_to_datetime(date) ==
    IF date = << >> THEN [NaT |-> TRUE, year |-> 0, month |-> 0, day |-> 0]
    ELSE [NaT |-> FALSE, year |-> date[1], month |-> date[2], day |-> date[3]]

get_season(month) ==
    IF month \in {12, 1, 2} THEN "Winter"
    ELSE IF month \in {3, 4, 5} THEN "Spring"
    ELSE IF month \in {6, 7, 8} THEN "Summer"
    ELSE "Fall"

\* the holiday test with the first day of its December part left out
get_period_after_20(date) ==
    LET month == date.month
        day   == date.day
    IN  IF (month = 12 /\ day > 20) \/ (month = 1 /\ day <= 5) THEN "Holiday Season"
        ELSE IF month = 2 /\ day >= 7 /\ day <= 14 THEN "Valentine's Day"
        ELSE IF month = 5 /\ day >= 1 /\ day <= 14 THEN "Mother's Day"
        ELSE IF month = 6 /\ day >= 14 /\ day <= 21 THEN "Father's Day"
        ELSE IF month = 9 /\ day >= 1 /\ day <= 15 THEN "Back to School"
        ELSE IF month = 11 /\ day >= 20 THEN "Thanksgiving"
        ELSE "Regular Period"

get_period(date) ==
    LET month == date.month
        day   == date.day
    IN  IF (month = 12 /\ day >= 20) \/ (month = 1 /\ day <= 5) THEN "Holiday Season"
        ELSE IF month = 2 /\ day >= 7 /\ day <= 14 THEN "Valentine's Day"
        ELSE IF month = 5 /\ day >= 1 /\ day <= 14 THEN "Mother's Day"
        ELSE IF month = 6 /\ day >= 14 /\ day <= 21 THEN "Father's Day"
        ELSE IF month = 9 /\ day >= 1 /\ day <= 15 THEN "Back to School"
        ELSE IF month = 11 /\ day >= 20 THEN "Thanksgiving"
        ELSE "Regular Period"

calendarFrame == <<storeVars, callVars, writers, fetchVars, flatVars, queryVars, pageVars,
                   json_rows, competition, graph>>

\* the columns the loader adds to one row of the DataFrame
LabelRow ==
    /\ \E bestsellers_date \in CalendarDates :
       \E date \in {seasonal_to_datetime(bestsellers_date)} :
           calendar' = [bestsellers_date |-> date, month |-> date.month,
                        season |-> get_season(date.month), period |-> get_period(date)]
    /\ UNCHANGED calendarFrame

NextCalendar == LabelRow

SpecCalendar == Init /\ [][NextCalendar]_vars

-----------------------------------------------------------------------------
(* Properties *)

\* the dedup key of a stored document or of a flattened record
KeyOf(d) == <<d.list_name, d.bestsellers_date, d.primary_isbn13>>

UniqueKeys(coll) ==
    \A i, j \in 1..Len(coll) : i # j => KeyOf(coll[i]) # KeyOf(coll[j])

\* C1: after any sequence of writer and clear calls made one at a time from
\* empty collections, no two documents of one collection have the same
\* (list_name, bestsellers_date, primary_isbn13).
C1_UniqueTriples ==
    UniqueKeys(books_collection) /\ UniqueKeys(historical_collection)

\* the collection the last writer call wrote to, in a snapshot of the store
Target(snap) == IF op = "store_books_in_mongo" THEN snap.books ELSE snap.historical

\* C2: the second of two calls of the same writer with the same arguments
\* returns 0 and leaves both collections as the first call left them; a
\* one-item snapshot written twice into an empty books collection is counted
\* once.
C2_Idempotent ==
    calls = 2 =>
        /\ ret = 0
        /\ books_collection = before[2].books
        /\ historical_collection = before[2].historical
        /\ (/\ op = "store_books_in_mongo"
            /\ before[1].books = << >>
            /\ Len(call.results["books"]) = 1) => count_documents(books_collection) = 1

C2_Witness ==
    /\ calls = 2
    /\ op = "store_books_in_mongo"
    /\ before[1].books = << >>
    /\ Len(call.results["books"]) = 1
    /\ count_documents(books_collection) = 1

\* a document without its write timestamp
StripStamp(d) == [k \in DOMAIN d \ {"fetched_at"} |-> d[k]]

KeyExists(coll, key) == \E i \in 1..Len(coll) : KeyOf(coll[i]) = key

\* the records of the scenario's batch whose dedup key is not in coll
NewRecords(coll) ==
    SelectSeq(results_to_dataframe(call.results, call.list_name),
              LAMBDA r : ~KeyExists(coll, KeyOf(r)))

\* C3: a writer call appends to its collection exactly the batch's records
\* whose dedup key was not in the collection, in batch order, and returns
\* their number, which is the growth of the collection's document count (0
\* when every record was skipped or the batch is empty).
C3_WriterResult ==
    calls >= 1 =>
        LET pre  == Target(before[calls])
            post == Target(Snapshot)
            new  == NewRecords(pre)
        IN  /\ Len(post) = Len(pre) + Len(new)
            /\ SubSeq(post, 1, Len(pre)) = pre
            /\ \A i \in 1..Len(new) : StripStamp(post[Len(pre) + i]) = new[i]
            /\ ret = Len(new)
            /\ ret = count_documents(post) - count_documents(pre)
            /\ (new = << >> => ret = 0)

\* a call that skipped one record of its batch and inserted the other
C3_Witness ==
    /\ calls = 1
    /\ Len(call.results["books"]) = 2
    /\ ret = 1
    /\ Len(Target(before[1])) = 1

\* C4: when two invocations of one writer with the same batch interleave and
\* both find a key absent and both insert, the collection holds two documents
\* with the same (list_name, bestsellers_date, primary_isbn13).
C4_BothInsertDuplicates ==
    (\A w \in Invocations : writers[w].pc = "done" /\ writers[w].ret >= 1) =>
        ~UniqueKeys(Collection(writers[1].target))

\* both invocations of a one-item batch have inserted it
C4_Witness ==
    /\ \A w \in Invocations :
          /\ writers[w].pc = "done"
          /\ writers[w].ret = 1
          /\ Len(writers[w].results["books"]) = 1
    /\ Len(Collection(writers[1].target)) = 2
    /\ KeyOf(Collection(writers[1].target)[1]) = KeyOf(Collection(writers[1].target)[2])

\* the remote call succeeded: a JSON object with status OK and results
Success(response) ==
    /\ response.kind = "json"
    /\ Get(response.data, "status") = "OK"
    /\ "results" \in DOMAIN response.data

Terminated == fpc \in {"done", "raised"}

RangeStart == strptime(fargs.start_date)
RangeEnd   == strptime(fargs.end_date)

\* the dates start, start + 7, ... that are not after end
GridDates ==
    IF RangeStart > RangeEnd THEN << >>
    ELSE [k \in 1..((RangeEnd - RangeStart) \div 7 + 1) |-> strftime(RangeStart + 7 * (k - 1))]

AttemptedDates == [i \in 1..Len(attempts) |-> attempts[i].date]

\* C5: in fetch_historical_data a week whose remote call fails (network
\* error, unparsable response, non-success status) does not abort the
\* iteration: the function returns, with every week of the range attempted
\* exactly once.
C5_FailureIsolated ==
    (Terminated /\ \E i \in 1..Len(attempts) : ~Success(attempts[i].response)) =>
        (fpc = "done" /\ AttemptedDates = GridDates)

\* C6: get_best_sellers_by_list returns the results object when the remote
\* call succeeds with status OK, and returns None without raising in every
\* other case.
C6_NoneOnFailure ==
    \A i \in 1..Len(attempts) :
        attempts[i].got =
            IF Success(attempts[i].response)
            THEN [raised |-> FALSE, value |-> attempts[i].response.data["results"]]
            ELSE [raised |-> FALSE, value |-> NoneObj]

\* C7: for a range start <= end, fetch_historical_data makes exactly
\* floor((end - start) / 7) + 1 attempts, one per date start + 7k, and
\* returns at most that many entries.
C7_AttemptCount ==
    (Terminated /\ RangeStart <= RangeEnd) =>
        /\ Len(attempts) = (RangeEnd - RangeStart) \div 7 + 1
        /\ AttemptedDates = GridDates
        /\ Len(all_data) <= (RangeEnd - RangeStart) \div 7 + 1

\* the entries of the attempts that returned data
ReturnedData ==
    LET good == SelectSeq(attempts, LAMBDA a : ~a.got.raised /\ TruthyObj(a.got.value))
    IN  [i \in 1..Len(good) |-> [date |-> good[i].date, data |-> good[i].got.value]]

\* C8: fetch_historical_data attempts start, start + 7, ... in ascending
\* order up to end, and its result holds, in that order, one entry
\* {date, data} for each attempted date whose fetch returned data, and no
\* other entry.
C8_OutputShape ==
    Terminated =>
        /\ fpc = "done"
        /\ AttemptedDates = GridDates
        /\ all_data = ReturnedData

ItemFields == {"rank", "rank_last_week", "weeks_on_list", "title", "author", "publisher",
               "description", "price", "primary_isbn10", "primary_isbn13",
               "amazon_product_url"}

\* C9: results_to_dataframe(S, list_name) returns one record per item of S,
\* in item order; every record carries the list_name argument when one is
\* given (S's list_name otherwise) and S's bestsellers_date and
\* published_date, and each per-item field is the item's value, or None when
\* the item lacks it.
C9_Flatten ==
    flat_in.given # << >> =>
        LET S    == flat_in.given[1]
            name == flat_in.given[2]
            N    == Len(S["books"])
        IN  /\ Len(flat_out) = N
            /\ \A i \in 1..N :
                  /\ DOMAIN flat_out[i] =
                         ItemFields \cup {"list_name", "bestsellers_date", "published_date"}
                  /\ flat_out[i].list_name =
                         IF name \notin {None, ""} THEN name
                         ELSE IF "list_name" \in DOMAIN S THEN S["list_name"] ELSE ""
                  /\ flat_out[i].bestsellers_date =
                         IF "bestsellers_date" \in DOMAIN S THEN S["bestsellers_date"] ELSE ""
                  /\ flat_out[i].published_date =
                         IF "published_date" \in DOMAIN S THEN S["published_date"] ELSE ""
                  /\ \A f \in ItemFields :
                         flat_out[i][f] =
                             IF f \in DOMAIN S["books"][i] THEN S["books"][i][f] ELSE None

\* a two-item snapshot flattened under a given list name
C9_Witness ==
    /\ flat_in.given # << >>
    /\ flat_in.given[2] = "paperback"
    /\ "list_name" \in DOMAIN flat_in.given[1]
    /\ Len(flat_out) = 2
    /\ flat_out[1].primary_isbn13 = "111"
    /\ flat_out[2].primary_isbn13 = None

Selected(coll, field, v) == {coll[i] : i \in {k \in 1..Len(coll) : coll[k][field] = v}}

\* rows holds each document of docs once and nothing else
ExactlyTheDocs(rows, docs) ==
    /\ {rows[i] : i \in 1..Len(rows)} = docs
    /\ Len(rows) = Cardinality(docs)

\* calendar order of the snapshot dates in use, the absent date first
DateOrdinal(date) ==
    IF date = "" THEN 0 ELSE IF date = "2024-01-07" THEN 1 ELSE 2

Nondecreasing(rows) ==
    \A i, j \in 1..Len(rows) :
        i < j => DateOrdinal(rows[i].bestsellers_date) <= DateOrdinal(rows[j].bestsellers_date)

Nonincreasing(rows) ==
    \A i, j \in 1..Len(rows) :
        i < j => DateOrdinal(rows[i].bestsellers_date) >= DateOrdinal(rows[j].bestsellers_date)

AllDocs(coll) == {coll[i] : i \in 1..Len(coll)}

ReadCorrect ==
    read # << >> =>
        /\ ~read.raised
        /\ read.op = "get_book_history" =>
               /\ ExactlyTheDocs(read.value, Selected(books_collection, "primary_isbn13", read.arg))
               /\ Nondecreasing(read.value)
        /\ read.op = "get_all_books" =>
               /\ ExactlyTheDocs(read.value, AllDocs(books_collection))
               /\ Nonincreasing(read.value)
        /\ read.op = "get_all_historical_books" =>
               /\ ExactlyTheDocs(read.value, AllDocs(historical_collection))
               /\ Nonincreasing(read.value)
        /\ read.op = "get_books_by_list" =>
               ExactlyTheDocs(read.value, Selected(books_collection, "list_name", read.arg))
        /\ read.op = "get_books_by_date" =>
               ExactlyTheDocs(read.value, Selected(books_collection, "bestsellers_date", read.arg))
        /\ read.op = "get_unique_lists" =>
               /\ \A d \in AllDocs(books_collection) :
                      Cardinality({i \in 1..Len(read.value) : read.value[i] = d.list_name}) = 1
               /\ \A i \in 1..Len(read.value) :
                      \E d \in AllDocs(books_collection) : d.list_name = read.value[i]

\* C17: with the store answering, get_book_history returns exactly the
\* documents of the books collection with the given primary_isbn13, oldest
\* snapshot date first; get_all_books and get_all_historical_books return
\* every document of their collection, newest snapshot date first;
\* get_books_by_list and get_books_by_date return exactly the documents with
\* the given list_name or bestsellers_date; get_unique_lists returns each
\* stored list_name once; and an accessor call leaves both collections as
\* they were.
C17_ReadAccessors ==
    /\ []ReadCorrect
    /\ [][(read' # read /\ read' # << >>) =>
              /\ books_collection' = books_collection
              /\ historical_collection' = historical_collection]_vars

\* a history of two snapshot dates, returned in the reverse of the order the
\* documents were written in
C17_Witness ==
    /\ read # << >>
    /\ read.op = "get_book_history"
    /\ Len(read.value) = 2
    /\ read.value[1].bestsellers_date = "2024-01-07"
    /\ read.value[2].bestsellers_date = "2024-01-14"
    /\ read.value[1].fetched_at > read.value[2].fetched_at

\* the records the scenario's last writer call inserted
InsertedRecords == NewRecords(Target(before[calls]))

\* a lookup made after a writer call returns, for each record that call
\* inserted under the looked-up primary_isbn13, a row with the record's
\* field values
RoundTrip ==
    (read' # read /\ calls >= 1) =>
        \A k \in 1..Len(InsertedRecords) :
            InsertedRecords[k].primary_isbn13 = read'.arg =>
                /\ ~read'.raised
                /\ \E i \in 1..Len(read'.value) : StripStamp(read'.value[i]) = InsertedRecords[k]

\* C11: after either writer has inserted a record, get_book_history of the
\* record's primary_isbn13 returns a document whose fields, apart from
\* fetched_at, are the input record's.
C11_RoundTrip == [][RoundTrip]_vars

\* the same, for records inserted by store_books_in_mongo only
C11_RoundTripMongo == [][op = "store_books_in_mongo" => RoundTrip]_vars

\* what a count accessor answers when the store holds n documents
Counted(n) == {[raised |-> FALSE, value |-> n]}

\* C12: clear_all_books (clear_historical_books) returns the number of
\* documents its collection held just before the call, and count_books
\* (count_historical_books) answers 0 right after it; clearing what a writer
\* call with five distinct items left returns 5.
C12_BulkClear ==
    /\ op = "clear_all_books" =>
           /\ ret = Len(before[1].books)
           /\ count_books = Counted(0)
           /\ (read # << >> /\ read.op = "count_books") => read.value = 0
           /\ before[1].books = mongo_call(<< >>, FiveSnapshot, None, 0).coll => ret = 5
    /\ op = "clear_historical_books" =>
           /\ ret = Len(before[1].historical)
           /\ count_historical_books = Counted(0)
           /\ (read # << >> /\ read.op = "count_historical_books") => read.value = 0
           /\ before[1].historical = historical_call(<< >>, FiveSnapshot, None, 0).coll
                  => ret = 5

\* five distinct records cleared, and counted afterwards
C12_Witness ==
    /\ op = "clear_all_books"
    /\ Len(before[1].books) = 5
    /\ UniqueKeys(before[1].books)
    /\ ret = 5
    /\ read # << >>
    /\ read.op = "count_books"
    /\ read.value = 0

IsPrefix(s, t) == Len(s) <= Len(t) /\ SubSeq(t, 1, Len(s)) = s

\* C13: a step that changes a collection is either a call of that
\* collection's writer, which leaves every document already stored as it was
\* (fetched_at included) and only appends, or a call of that collection's
\* clear, which removes them all; a batch that carries a stored dedup key with
\* other field values changes nothing of the stored document.
C13_Lifecycle ==
    [][/\ books_collection' # books_collection =>
              \/ op' = "store_books_in_mongo" /\ IsPrefix(books_collection, books_collection')
              \/ op' = "clear_all_books" /\ books_collection' = << >>
       /\ historical_collection' # historical_collection =>
              \/ /\ op' = "store_books_historical"
                 /\ IsPrefix(historical_collection, historical_collection')
              \/ op' = "clear_historical_books" /\ historical_collection' = << >>
       /\ op' \in {"store_books_in_mongo", "store_books_historical"} =>
              /\ IsPrefix(books_collection, books_collection')
              /\ IsPrefix(historical_collection, historical_collection')]_vars

\* the item stored with rank 1 has met a batch that carries it with rank 2,
\* and is stored as it was
C13_Witness ==
    /\ op = "store_books_in_mongo"
    /\ call # << >>
    /\ call.results["books"] = <<BookA2>>
    /\ Len(before[1].books) = 1
    /\ before[1].books[1].rank = "1"
    /\ before[1].books[1].primary_isbn13 = "111"
    /\ books_collection = before[1].books
    /\ ret = 0

\* the overview request failed, or was answered without a results object
OverviewFailed(response) ==
    \/ response.kind # "json"
    \/ "results" \notin DOMAIN response.data

\* C18: when the overview request fails or is answered without a results
\* object, get_full_overview and get_lists_names do not raise and return a
\* null or empty result.
C18_OverviewRecovers ==
    (overview # << >> /\ OverviewFailed(overview.response)) =>
        /\ ~overview.got.raised
        /\ overview.got.value \in {NoneObj, << >>}

\* the same, for the calls whose request was answered with a results object:
\* neither function raises
C18_OverviewAnswered ==
    (overview # << >> /\ ~OverviewFailed(overview.response)) => ~overview.got.raised

\* the documents of invocation w that are in its collection
OwnVisible(w) ==
    {k \in 1..Len(writers[w].documents) :
        \E i \in 1..Len(Collection(writers[w].target)) :
            Collection(writers[w].target)[i] = writers[w].documents[k]}

\* while an invocation is in its loop, none of the documents it has staged
\* is in the collection
StagedNotVisible ==
    \A w \in Invocations : writers[w].pc = "loop" => OwnVisible(w) = {}

\* the invocation that makes a step which changes collection c: it has
\* checked every item of its batch, has staged documents, appends them all
\* and leaves its loop
BulkInsertBy(w, c, coll, collAfter) ==
    /\ writers[w].target = c
    /\ writers[w].pc = "loop"
    /\ writers[w].i > Len(writers[w].results["books"])
    /\ writers[w].documents # << >>
    /\ collAfter = coll \o writers[w].documents
    /\ writers'[w].pc \in {"sleep", "done"}
    /\ writers'[w].ret = Len(writers[w].documents)

CheckThenInsert ==
    /\ books_collection' # books_collection =>
           \E w \in Invocations :
               BulkInsertBy(w, "books", books_collection, books_collection')
    /\ historical_collection' # historical_collection =>
           \E w \in Invocations :
               BulkInsertBy(w, "historical", historical_collection, historical_collection')
    /\ \A w \in Invocations :
           /\ writers[w].pc # "loop" => writers'[w].pc # "loop"
           /\ writers'[w].i # writers[w].i =>
                  /\ writers[w].pc = "loop"
                  /\ books_collection' = books_collection
                  /\ historical_collection' = historical_collection
           /\ (writers[w].pc = "loop" /\ writers'[w].pc # "loop"
                   /\ writers[w].documents = << >>) =>
                  /\ writers'[w].ret = 0
                  /\ books_collection' = books_collection
                  /\ historical_collection' = historical_collection

\* C19: within one writer call every existence check comes before the
\* call's bulk insert, the call makes at most one bulk insert, of everything
\* it staged, and none when it staged nothing; while the call is still in
\* its loop none of its staged documents is in the collection.
C19_CheckThenSingleInsert == []StagedNotVisible /\ [][CheckThenInsert]_vars

\* an invocation of a two-item batch has staged the first item and is about
\* to check the second, with nothing in the collection
C19_Witness ==
    /\ writers[1].pc = "loop"
    /\ Len(writers[1].results["books"]) = 2
    /\ writers[1].i = 2
    /\ Len(writers[1].documents) = 1
    /\ Collection(writers[1].target) = << >>

Stripped(coll) == [i \in 1..Len(coll) |-> StripStamp(coll[i])]

\* C20: after each batch has been given to both writers, starting from empty
\* collections, the two calls have returned the same count and the two
\* collections hold the same documents in the same order, fetched_at aside;
\* store_books_historical has slept its fixed half second if it inserted and
\* not at all if it inserted nothing.
C20_WritersEquivalent ==
    (pair # << >> /\ pair.turn = "mongo") =>
        /\ pair.mongo = pair.historical
        /\ Stripped(books_collection) = Stripped(historical_collection)
        /\ pair.slept = IF pair.historical >= 1 THEN SleepTenths ELSE 0
        /\ pair.historical = 0 => pair.slept = 0

\* a batch of two items, one skipped and one inserted by both writers, after
\* an earlier batch
C20_Witness ==
    /\ pair # << >>
    /\ pair.turn = "mongo"
    /\ Len(pair.results["books"]) = 2
    /\ pair.mongo = 1
    /\ pair.historical = 1
    /\ pair.slept = SleepTenths
    /\ Len(historical_collection) = 2

\* the components that load the API key configuration at startup
LoadsConfiguration == {"get_data", "Seasonal", "Publisher", "Co-Author", "Lifespan"}

\* C14: when the API key configuration is absent, startup of the ingestion
\* module and of every page that loads the configuration ends in a clear
\* failure: none goes on with a missing or placeholder key, none goes on with
\* the data accessor replaced by a no-op.
C14_MissingConfigurationFailsFast ==
    (page # << >> /\ page.name \in LoadsConfiguration /\ page.config # "ok")
        => /\ page.outcome \in {"raised", "stopped"}
           /\ page.key \notin {"undefined", "DUMMY_KEY"} \/ page.outcome = "raised"
           /\ page.loaded # "noop"

\* supplementary: the ingestion module itself does fail at startup
C14_IngestionFailsFast ==
    (page # << >> /\ page.name = "get_data" /\ page.config # "ok")
        => page.outcome = "raised"

\* every get_data read accessor, with the arguments of the stored documents,
\* raises
ReadsRaise ==
    /\ \A got \in get_all_books : got.raised
    /\ \A got \in count_books : got.raised
    /\ \A got \in get_unique_lists : got.raised
    /\ \A got \in get_all_historical_books : got.raised
    /\ \A got \in count_historical_books : got.raised
    /\ \A l \in {"hardcover-fiction", None} : \A got \in get_books_by_list(l) : got.raised
    /\ \A d \in {"2024-01-07", None} : \A got \in get_books_by_date(d) : got.raised
    /\ \A i \in {"111", None} : \A got \in get_book_history(i) : got.raised

HistoryPages == {"Seasonal", "Publisher", "Co-Author", "Sentiment"}

\* C15: while the store does not answer every get_data read accessor raises
\* to its caller, and a history page whose load failed holds no rows and ends
\* as an empty or stopped page.
C15_StoreFailureHandled ==
    /\ ~store_up => ReadsRaise
    /\ (page # << >> /\ page.name \in HistoryPages /\ page.loaded = "failed")
           => /\ page.rows = << >>
              /\ page.outcome \in {"empty", "stopped"}
    /\ (page # << >> /\ page.name \in HistoryPages /\ page.outcome = "rendered")
           => page.loaded = "store" /\ page.rows # << >>

C15_Witness ==
    /\ ~store_up
    /\ page # << >>
    /\ page.name = "Sentiment"
    /\ page.loaded = "failed"
    /\ page.outcome = "stopped"
    /\ historical_collection # << >>

\* C16: no step of any analysis page, the Lifespan page's placeholders
\* included, changes either collection.
C16_PagesReadOnly ==
    [][/\ books_collection' = books_collection
       /\ historical_collection' = historical_collection]_vars

C16_Witness ==
    /\ page # << >>
    /\ page.name = "Lifespan placeholders"
    /\ books_collection # << >>
    /\ historical_collection # << >>
    /\ Memoized("sentiment")
    /\ Memoized("coauthor")


\* the cache key of a page's loader
LoaderOf(name) == IF name = "Seasonal" THEN "seasonal" ELSE "publisher"

\* a recorded run of a memoizing page shows the memoized value
ShowsMemoized ==
    (page # << >> /\ page.name \in {"Seasonal", "Publisher"})
        => /\ Memoized(LoaderOf(page.name))
           /\ page.rows = cache[LoaderOf(page.name)].rows
           /\ page.loaded = cache[LoaderOf(page.name)].loaded

\* a memoized value stays what the first run of the loader returned
MemoizedStays ==
    \A name \in DOMAIN cache : name \in DOMAIN cache' /\ cache'[name] = cache[name]

\* C21: within one process the loader of a page runs once: the value it
\* returned the first time, the empty one included, is what every later run of
\* the page gets, whatever was written to or cleared from the store since.
C21_MemoizedLoading == []ShowsMemoized /\ [][MemoizedStays]_vars

\* the Seasonal page shows rows after the collection was cleared, and the
\* Publisher page memoized the empty result of a failed read
C21_Witness ==
    /\ page # << >>
    /\ page.name = "Seasonal"
    /\ page.rows # << >>
    /\ historical_collection = << >>
    /\ store_up
    /\ Memoized("publisher")
    /\ cache["publisher"].loaded = "failed"

\* a date of 2024
In2024(date) == date # << >> /\ date[1] = 2024

\* a debut row: rank_last_week 0, missing or not a number
DebutCells == {"0", None, "n/a"}

\* the debut rows of a week among the 2024 rows of the file
WeekDebuts(list_name, date) ==
    Cardinality({i \in 1..Len(json_rows) :
                    /\ json_rows[i].list_name = list_name
                    /\ json_rows[i].bestsellers_date = date
                    /\ json_rows[i].rank_last_week \in DebutCells})

Rows2024 == {i \in 1..Len(json_rows) : In2024(json_rows[i].bestsellers_date)}

\* C22: for every threshold of the slider, each row of the 2024 data that
\* belongs to a (list_name, bestsellers_date) week is 'Crowded' if and only if
\* the week's number of debut rows (rank_last_week 0, missing or non-numeric)
\* is at least the threshold, and 'Quiet' otherwise; the analysed frame holds
\* exactly the 2024 rows.
C22_CompetitionClassification ==
    competition # << >> =>
        /\ Len(competition.df) = Cardinality(Rows2024)
        /\ \A k \in 1..Len(competition.df) :
              LET row == competition.df[k]
              IN  /\ In2024(row.bestsellers_date)
                  /\ row.list_name # None =>
                        row.competition_level =
                            IF WeekDebuts(row.list_name, row.bestsellers_date)
                                   >= competition.debut_threshold
                            THEN "Crowded" ELSE "Quiet"

\* a week with exactly as many debuts as the threshold, one of them by a
\* missing rank_last_week, beside a quiet week, with a row outside 2024 in
\* the file
C22_Witness ==
    /\ competition # << >>
    /\ competition.debut_threshold = 2
    /\ Len(competition.df) < Len(json_rows)
    /\ \E k \in 1..Len(competition.df) :
          /\ competition.df[k].list_name # None
          /\ competition.df[k].competition_level = "Crowded"
    /\ \E k \in 1..Len(json_rows) :
          /\ json_rows[k].rank_last_week = None
          /\ json_rows[k].list_name = "hardcover-fiction"
          /\ json_rows[k].bestsellers_date = <<2024, 1, 7>>
    /\ WeekDebuts("hardcover-fiction", <<2024, 1, 7>>) = 2

\* supplementary: a 2024 row without a list_name belongs to no week and gets
\* no classification
C22_NoWeekNoLevel ==
    competition # << >> =>
        \A k \in 1..Len(competition.df) :
            competition.df[k].list_name = None
                => competition.df[k].competition_level = "NaN"

\* the dedup key of an item of a batch: the list_name argument, or else the
\* snapshot's list_name, or else ''; the snapshot's date or ''; the item's
\* primary_isbn13 or null
RecordKey(results, list_name, book) ==
    <<IF list_name \notin {None, ""} THEN list_name
      ELSE IF "list_name" \in DOMAIN results THEN results.list_name ELSE "",
      IF "bestsellers_date" \in DOMAIN results THEN results.bestsellers_date ELSE "",
      IF "primary_isbn13" \in DOMAIN book THEN book.primary_isbn13 ELSE None>>

BatchKeys(results, list_name) ==
    {RecordKey(results, list_name, results["books"][i]) : i \in 1..Len(results["books"])}

StoredKeys(coll) == {KeyOf(coll[i]) : i \in 1..Len(coll)}

\* the store after the c-th call of the scenario
AfterCall(c) == IF c < Len(before) THEN before[c + 1] ELSE Snapshot

\* the key set after each call made so far is the key set before it united
\* with the keys of the batch
KeysAdded ==
    \A c \in 1..Len(before) :
        StoredKeys(Target(AfterCall(c)))
            = StoredKeys(Target(before[c])) \cup BatchKeys(call.results, call.list_name)

\* the scenario's batch and any other batch written into an empty collection,
\* in either order, by either writer, leave the union of their keys
TwoBatches(first, second) ==
    LET m == mongo_call(mongo_call(<< >>, first.results, first.list_name, 0).coll,
                        second.results, second.list_name, MaxBooks).coll
        h == historical_call(historical_call(<< >>, first.results, first.list_name, 0).coll,
                             second.results, second.list_name, MaxBooks).coll
    IN  [mongo |-> StoredKeys(m), historical |-> StoredKeys(h)]

\* (a fact about the scenario's batch alone, stated where the scenario starts)
OrderIndependent ==
    (calls = 0 /\ op = "import") =>
        \A other \in [results : Snapshots, list_name : ListNameArgs] :
            LET union == BatchKeys(call.results, call.list_name)
                             \cup BatchKeys(other.results, other.list_name)
            IN  /\ TwoBatches(call, other) = [mongo |-> union, historical |-> union]
                /\ TwoBatches(other, call) = [mongo |-> union, historical |-> union]

\* C23: after a writer call the set of dedup keys in the target collection is
\* the set before the call united with the keys of the batch's records; two
\* batches written into an empty collection leave the union of their keys in
\* either order.
C23_KeySetPostcondition == KeysAdded /\ OrderIndependent

\* a call on a prepared store that added a key to keys already there, one of
\* them the key of an item without primary_isbn13
C23_Witness ==
    /\ calls >= 1
    /\ StoredKeys(Target(before[1])) # {}
    /\ StoredKeys(Target(before[1])) # StoredKeys(Target(AfterCall(1)))
    /\ BatchKeys(call.results, call.list_name) \ StoredKeys(Target(before[1])) # {}
    /\ BatchKeys(call.results, call.list_name) \cap StoredKeys(Target(before[1])) # {}
    /\ \E k \in StoredKeys(Target(AfterCall(1))) : k[3] = None

\* the collection the last operation did not work on, in a snapshot
Other(snap) ==
    IF op \in {"store_books_in_mongo", "clear_all_books"} THEN snap.historical ELSE snap.books

\* C24: the writer and the clear of one collection leave the other collection
\* unchanged, and a writer inserts every record whose key is not in its own
\* collection, whether or not the other collection holds it.
C24_CollectionsIndependent ==
    before # << >> =>
        /\ Other(Snapshot) = Other(before[1])
        /\ op \in {"store_books_in_mongo", "store_books_historical"} =>
              /\ IsPrefix(Target(before[1]), Target(Snapshot))
              /\ Len(Target(Snapshot)) - Len(Target(before[1]))
                     = Len(NewRecords(Target(before[1])))

\* a batch written to books while books_historical already held its key
C24_Witness ==
    /\ before # << >>
    /\ op = "store_books_in_mongo"
    /\ before[1].books = << >>
    /\ BatchKeys(call.results, call.list_name) \cap StoredKeys(before[1].historical) # {}
    /\ StoredKeys(books_collection) = BatchKeys(call.results, call.list_name)
    /\ historical_collection = before[1].historical

\* C25: when an existence check of a writer call raises, the call ends with
\* the exception (it returns nothing) and both collections are as they were
\* when the call started, whatever was staged by then.
C25_NoPartialWrite ==
    (/\ writers # << >>
     /\ before # << >>
     /\ writers[1].pc = "raised"
     /\ writers[1].i <= Len(writers[1].results["books"]))
        => /\ books_collection = before[1].books
           /\ historical_collection = before[1].historical
           /\ writers[1].ret = 0

\* the check of the second item raised after the first item was staged, on a
\* collection that held documents
C25_Witness ==
    /\ writers # << >>
    /\ before # << >>
    /\ writers[1].pc = "raised"
    /\ writers[1].i = 2
    /\ writers[1].i <= Len(writers[1].results["books"])
    /\ writers[1].documents # << >>
    /\ Collection(writers[1].target) # << >>

\* C26: the documents a writer inserts into an empty collection are, in the
\* same order and field for field, the records results_to_dataframe gives for
\* the same snapshot and list_name argument, each with a fetched_at besides.
C26_WriterMatchesFlattener ==
    (calls >= 1 /\ Target(before[1]) = << >>) =>
        LET docs == Target(AfterCall(1))
            rows == results_to_dataframe(call.results, call.list_name)
        IN  /\ Len(docs) = Len(rows)
            /\ \A i \in 1..Len(rows) :
                  /\ DOMAIN docs[i] = DOMAIN rows[i] \cup {"fetched_at"}
                  /\ "fetched_at" \notin DOMAIN rows[i]
                  /\ \A f \in DOMAIN rows[i] : docs[i][f] = rows[i][f]

\* the historical writer called with a list_name argument and a snapshot of
\* its own list_name, two items, one without primary_isbn13
C26_Witness ==
    /\ calls >= 1
    /\ op = "store_books_historical"
    /\ before[1].historical = << >>
    /\ call.list_name = "paperback"
    /\ "list_name" \in DOMAIN call.results
    /\ Len(call.results["books"]) = 2
    /\ Len(AfterCall(1).historical) = 2
    /\ \E i \in 1..2 : AfterCall(1).historical[i].primary_isbn13 = None

KeyFields == {"list_name", "bestsellers_date", "primary_isbn13"}

\* the key is the document restricted to the three key fields, and the
\* document, once stored, is what the existence check with that key finds
KeyProjects(key, doc) ==
    /\ DOMAIN key = KeyFields
    /\ \A f \in KeyFields : f \in DOMAIN doc /\ key[f] = doc[f]
    /\ find_one(insert_many(<< >>, <<doc>>), key) = doc

\* C27: for every item of a snapshot and every list_name argument, the key of
\* the existence check is the (list_name, bestsellers_date, primary_isbn13)
\* part of the document the writer builds for the item, in both writers, so
\* the stored document is found by the check for the same item.
C27_KeyMatchesDocument ==
    flat_in.given # << >> =>
        LET results   == flat_in.given[1]
            list_name == flat_in.given[2]
        IN  \A i \in 1..Len(results["books"]) :
                LET book == results["books"][i]
                IN  /\ KeyProjects(mongo_unique_key(results, list_name, book),
                                   mongo_doc(results, list_name, book, now))
                    /\ KeyProjects(historical_unique_key(results, list_name, book),
                                   historical_doc(results, list_name, book, now))

\* a snapshot without list_name and date, an item without primary_isbn13, an
\* empty list_name argument
C27_Witness ==
    /\ flat_in.given # << >>
    /\ flat_in.given[2] = ""
    /\ DOMAIN flat_in.given[1] = {"books"}
    /\ \E i \in 1..Len(flat_in.given[1]["books"]) :
          "primary_isbn13" \notin DOMAIN flat_in.given[1]["books"][i]

\* an iteration of the loop moves current_date on by 7 days and makes one
\* attempt
WeekAdvances ==
    (fpc = "loop" /\ fpc' = "loop") =>
        /\ current_date' = current_date + 7
        /\ Len(attempts') = Len(attempts) + 1

\* never more attempts than weeks in the range, none when end is before start
AttemptsBounded ==
    fpc # "idle" =>
        IF RangeStart > RangeEnd THEN attempts = << >>
        ELSE Len(attempts) <= (RangeEnd - RangeStart) \div 7 + 1

\* C28: for every start and end date a call of fetch_historical_data ends,
\* each iteration moving current_date on by 7 days, after at most one attempt
\* per week of the range and no attempt when end is before start.
C28_FetchTerminates ==
    /\ (fpc = "loop") ~> Terminated
    /\ []AttemptsBounded
    /\ [][WeekAdvances]_vars

\* a call over three weeks has returned
C28_Witness ==
    /\ fpc = "done"
    /\ Len(attempts) = 3
    /\ RangeEnd - RangeStart >= 14

\* the occurrences of nodes in the records, in the order the loop meets them:
\* b of record 1, x of record 1, b of record 2, ...
Occurrences(records) ==
    [k \in 1..(2 * Len(records)) |->
        IF k % 2 = 1 THEN [id |-> records[(k + 1) \div 2].b.id, as |-> "b",
                           node |-> records[(k + 1) \div 2].b]
        ELSE [id |-> records[k \div 2].x.id, as |-> "x", node |-> records[k \div 2].x]]

FirstOccurrence(records, id) ==
    LET occ == Occurrences(records)
    IN  occ[CHOOSE k \in 1..Len(occ) :
                /\ occ[k].id = id
                /\ \A j \in 1..(k - 1) : occ[j].id # id]

\* C29: fetch_graph returns each node id of the records exactly once, with the
\* label, group and properties of its first occurrence; one edge per record in
\* record order; and every edge runs between ids of returned nodes.
C29_GraphConsistent ==
    graph # << >> =>
        LET ids == {graph.nodes[i].id : i \in 1..Len(graph.nodes)}
            occ == Occurrences(graph.records)
        IN  /\ Cardinality(ids) = Len(graph.nodes)
            /\ ids = {occ[k].id : k \in 1..Len(occ)}
            /\ \A i \in 1..Len(graph.nodes) :
                  LET first == FirstOccurrence(graph.records, graph.nodes[i].id)
                  IN  IF first.as = "b"
                      THEN /\ graph.nodes[i].group = "Book"
                           /\ graph.nodes[i].props
                                  = [Title |-> Get(first.node, "title"),
                                     Published_date |-> Get(first.node, "published_date"),
                                     ISBN13 |-> Get(first.node, "isbn13")]
                           /\ graph.nodes[i].label
                                  = IF "title" \in DOMAIN first.node THEN first.node.title
                                    ELSE "Book"
                      ELSE /\ graph.nodes[i].group
                                  = IF first.node.labels = << >> THEN "Node"
                                    ELSE first.node.labels[1]
                           /\ "Title" \notin DOMAIN graph.nodes[i].props
            /\ Len(graph.edges) = Len(graph.records)
            /\ \A i \in 1..Len(graph.records) :
                  /\ graph.edges[i] = <<graph.records[i].b.id, graph.records[i].x.id,
                                        graph.records[i].r>>
                  /\ graph.edges[i][1] \in ids
                  /\ graph.edges[i][2] \in ids

\* a book met first as the neighbour of another book and later as the book
\* of a record, and a book related to itself
C29_Witness ==
    /\ graph # << >>
    /\ Len(graph.records) = 3
    /\ graph.records[1].b.id = 1
    /\ graph.records[1].x.id = 2
    /\ graph.records[2].b.id = 2
    /\ graph.records[3].b.id = 1
    /\ graph.records[3].x.id = 1
    /\ Len(graph.nodes) = 2
    /\ Len(graph.edges) = 3

\* the season the seasonal page's description gives to a month
SeasonMonths ==
    [Winter |-> {12, 1, 2}, Spring |-> {3, 4, 5}, Summer |-> {6, 7, 8}, Fall |-> {9, 10, 11}]

\* the named periods as ranges of <<month, day>>
NamedPeriods ==
    ("Holiday Season" :> (({12} \X (20..31)) \cup ({1} \X (1..5)))) @@
    ("Valentine's Day" :> ({2} \X (7..14))) @@
    ("Mother's Day" :> ({5} \X (1..14))) @@
    ("Father's Day" :> ({6} \X (14..21))) @@
    ("Back to School" :> ({9} \X (1..15))) @@
    ("Thanksgiving" :> ({11} \X (20..30)))

\* C30: every calendar date gets the one season whose months hold its month,
\* and the one named period whose range holds it, 'Regular Period' when no
\* range does; no date lies in two ranges.
C30_SeasonAndPeriod ==
    (calendar # << >>) =>
        \E date \in {calendar.bestsellers_date} :
            ~date.NaT =>
                LET seasons == {s \in DOMAIN SeasonMonths : date.month \in SeasonMonths[s]}
                    periods == {p \in DOMAIN NamedPeriods :
                                    <<date.month, date.day>> \in NamedPeriods[p]}
                IN  /\ seasons = {calendar.season}
                    /\ Cardinality(periods) <= 1
                    /\ IF periods = {} THEN calendar.period = "Regular Period"
                       ELSE periods = {calendar.period}

\* 30 November, the last day of the Thanksgiving range
C30_Witness ==
    /\ calendar # << >>
    /\ ~calendar.bestsellers_date.NaT
    /\ calendar.bestsellers_date.month = 11
    /\ calendar.bestsellers_date.day = 30
    /\ calendar.season = "Fall"
    /\ calendar.period = "Thanksgiving"

\* a row without a date is labelled too: 'Fall' and 'Regular Period'
C30_NoDateLabelled ==
    (calendar # << >> /\ calendar.bestsellers_date.NaT) =>
        calendar.season = "Fall" /\ calendar.period = "Regular Period"

====
